---- MODULE Spec2Model ----
(***************************************************************************)
(* A model of the "Smart Blockbuster" agent pipeline:                      *)
(*   - PipelineState and the orchestrator run_pipeline                     *)
(*     (src/smart_blockbuster/agent_types.py, orchestrator.py, agents.py); *)
(*   - the Gemini gateway call_gemini / call_gemini_image and the HTTP     *)
(*     endpoints built on it (src/main.py).                                *)
(*   - the library functions on scripts, hooks and texts                   *)
(*     (src/smart_blockbuster/production.py, structure.py, hook_engine.py, *)
(*     analyzer.py).                                                       *)
(* The specifications share the variables:                                 *)
(*   Spec             one call of run_pipeline, then an optional reset()   *)
(*   SpecFair         Spec, with the steps that need no input always taken *)
(*   SpecLog          a PipelineState that only receives add_log calls     *)
(*   SpecGateway      one HTTP request served by the backend               *)
(*   SpecGatewayFair  SpecGateway, with every httpx.post coming to an end  *)
(*   SpecExport       export_script_json, then import_script_json          *)
(*   SpecSerrated     generate_serrated_edge, from the menu or directly    *)
(*   SpecHook         validate_hook                                        *)
(*   SpecStaccato     analyze_staccato, also after appending sentences     *)
(*   SpecButTherefore analyze_but_therefore                                *)
(*   SpecArchitect    run_architect on a dossier                           *)
(*   SpecWriter       run_writer on a blueprint                            *)
(*   SpecRhythm       analyze_editing_rhythm                               *)
(***************************************************************************)
EXTENDS Integers, Sequences, FiniteSets, TLC

VARIABLES
    state,        \* the PipelineState object
    pc,           \* the position of run_pipeline
    steppable,    \* run_pipeline's argument
    locals,       \* run_pipeline's local variables (the executors' return values)
    prompt_after, \* the agent name passed to the pending _wait_for_approval
    visited,      \* history: the values assigned to state.current_agent, in order
    called,       \* history: the stage executors called, in order
    prompts,      \* history: the number of approval prompts shown
    last_input,   \* history: the prompt last answered and the line typed
    added,        \* history: the number of add_log calls (SpecLog)
    gpc,          \* the position of the HTTP request being served
    endpoint,     \* the endpoint that received the request
    attempt,      \* call_gemini's loop variable
    requests,     \* history: the number of httpx.post calls of this request
    outcomes,     \* history: what each httpx.post led to, in order
    last_error,   \* call_gemini's last_error
    call_result,  \* how the gateway call ended (returned text / raised error)
    sleeps,       \* history: the time.sleep arguments, in order
    glog,         \* history: the lines given to log(), in order
    response,     \* the HTTP response
    fpc,          \* the library function being called on its own, and how far it is
    arg,          \* that call's argument
    ret           \* that call's return value

pvars == <<state, pc, steppable, locals, prompt_after, visited, called, prompts,
           last_input>>
gvars == <<gpc, endpoint, attempt, requests, outcomes, last_error, call_result,
           sleeps, glog, response>>
fvars == <<fpc, arg, ret>>
vars == <<state, pc, steppable, locals, prompt_after, visited, called, prompts,
          last_input, added, gpc, endpoint, attempt, requests, outcomes, last_error,
          call_result, sleeps, glog, response, fpc, arg, ret>>

\* Optional[T]: None is the empty sequence, a present value x is <<x>>.
None == <<>>
Some(x) == <<x>>

Min(a, b) == IF a <= b THEN a ELSE b

(***************************************************************************)
(* PipelineState                                                           *)
(***************************************************************************)
LOG_CAP == 500

PipelineState(is_steppable) ==
    [current_agent |-> "idle",
     is_processing |-> FALSE,
     is_steppable |-> is_steppable,
     step_status |-> "idle",
     logs |-> <<>>,
     topic |-> "",
     content_type |-> None,
     scout_suggestions |-> <<>>,
     radar_output |-> None,
     research_dossier |-> None,
     structure_blueprint |-> None,
     writer_output |-> None]

\* self.logs[-500:]
LastN(s, n) == IF Len(s) <= n THEN s ELSE SubSeq(s, Len(s) - n + 1, Len(s))

add_log_KeepOldest(s, message) ==
    LET l == Append(s.logs, message)
    IN  [s EXCEPT !.logs = IF Len(l) > LOG_CAP THEN SubSeq(l, 1, LOG_CAP) ELSE l]

add_log(s, message) ==
    LET l == Append(s.logs, message)
    IN  [s EXCEPT !.logs = IF Len(l) > LOG_CAP THEN LastN(l, LOG_CAP) ELSE l]

RECURSIVE add_logs(_, _)
add_logs(s, messages) ==
    IF messages = <<>> THEN s
    ELSE add_logs(add_log(s, Head(messages)), Tail(messages))

reset(s) ==
    [s EXCEPT !.current_agent = "idle",
              !.is_processing = FALSE,
              !.step_status = "idle",
              !.topic = "",
              !.content_type = None,
              !.scout_suggestions = <<>>,
              !.radar_output = None,
              !.research_dossier = None,
              !.structure_blueprint = None,
              !.writer_output = None,
              !.logs = <<>>]

(***************************************************************************)
(* Strings: the operations of str that the code uses                       *)
(***************************************************************************)
\* text[i - 1], as a string of one character
CharAt(text, i) == SubSeq(text, i, i)

\* dict.get(key, default)
Get(d, key, default) == IF key \in DOMAIN d THEN d[key] ELSE default

\* m in text
Contains(text, m) ==
    \E i \in 1..(Len(text) - Len(m) + 1) : SubSeq(text, i, i + Len(m) - 1) = m

\* len(s.split()): the number of maximal runs of characters other than the space
word_count(s) ==
    CHOOSE n \in
        {Cardinality({i \in 1..Len(x) :
                         CharAt(x, i) # " " /\ (i = 1 \/ CharAt(x, i - 1) = " ")}) :
         x \in {s}} : TRUE

(***************************************************************************)
(* The script data model (models.py)                                       *)
(***************************************************************************)
\* the Enum classes: member |-> value
HookArchetype ==
    [INVESTIGATOR |-> "investigator", CONTRARIAN |-> "contrarian",
     MAGICIAN |-> "magician", FORTUNE_TELLER |-> "fortune_teller",
     EXPERIMENTER |-> "experimenter", TEACHER |-> "teacher"]

SerratedPhase ==
    [HIGH_START |-> "high_start", CONTEXT_BRIDGE |-> "context_bridge",
     REHOOK |-> "rehook", INVESTIGATION |-> "investigation",
     SYNTHESIS |-> "synthesis"]

VisualType ==
    [BROLL |-> "b-roll", STOCK_FOOTAGE |-> "stock_footage",
     TEXT_OVERLAY |-> "text_overlay", MEME_REFERENCE |-> "meme_reference",
     SNAP_ZOOM |-> "snap_zoom", MAP |-> "map", DOCUMENT |-> "document",
     TALKING_HEAD |-> "talking_head"]

\* EnumClass(value): the member that has the value, None where Python raises
\* ValueError
EnumByValue(enum, value) ==
    IF \E m \in DOMAIN enum : enum[m] = value
    THEN Some(CHOOSE m \in DOMAIN enum : enum[m] = value)
    ELSE None

\* the dataclasses
HookStep(name, goal, text, visual) ==
    [name |-> name, goal |-> goal, text |-> text, visual |-> visual]

Hook(archetype, step1_anchor, step2_interjection, step3_snapback) ==
    [archetype |-> archetype, step1_anchor |-> step1_anchor,
     step2_interjection |-> step2_interjection, step3_snapback |-> step3_snapback]

\* Hook.steps()
steps(hook) == <<hook.step1_anchor, hook.step2_interjection, hook.step3_snapback>>

EvidenceLoop(context, deictic_driver, evidence, reveal, transition) ==
    [context |-> context, deictic_driver |-> deictic_driver, evidence |-> evidence,
     reveal |-> reveal, transition |-> transition]

ScriptBlock(phase, timecode_start, timecode_end, evidence_loops, rehook_text, intensity_pct) ==
    [phase |-> phase, timecode_start |-> timecode_start,
     timecode_end |-> timecode_end, evidence_loops |-> evidence_loops,
     rehook_text |-> rehook_text, intensity_pct |-> intensity_pct]

AVLine(timecode, audio_text, visual_description, visual_type, sfx, music_mood) ==
    [timecode |-> timecode, audio_text |-> audio_text,
     visual_description |-> visual_description, visual_type |-> visual_type,
     sfx |-> sfx, music_mood |-> music_mood]

\* hook is None or Some(Hook): export_script_json allows for a script without one
AVScript(title, promise, hook, blocks, av_lines, total_duration_sec) ==
    [title |-> title, promise |-> promise, hook |-> hook, blocks |-> blocks,
     av_lines |-> av_lines, total_duration_sec |-> total_duration_sec]

(***************************************************************************)
(* generate_serrated_edge (structure.py 27-100)                            *)
(***************************************************************************)
Digits == <<"0", "1", "2", "3", "4", "5", "6", "7", "8", "9">>

\* str(n) for n >= 0
RECURSIVE IntToStr(_)
IntToStr(n) ==
    IF n < 10 THEN Digits[n + 1] ELSE IntToStr(n \div 10) \o Digits[(n % 10) + 1]

\* f"{n:02d}:00" for n >= 0: at least two digits, zero-padded
Timecode(n) == (IF n < 10 THEN "0" ELSE "") \o IntToStr(n) \o ":00"

Max(a, b) == IF a >= b THEN a ELSE b

\* line 59 with a lower limit of current_min + 1
end_min_LowFloor(total_duration_min) == Max(total_duration_min - 2, 3 + 1)

\* line 59
end_min(total_duration_min) == Max(total_duration_min - 2, 3 + 2)

block_len_NoClamp(block_idx, current_min, last_min) ==
    IF block_idx % 2 = 0 THEN 3 ELSE 2

\* line 63
block_len(block_idx, current_min, last_min) ==
    Min(IF block_idx % 2 = 0 THEN 3 ELSE 2, last_min - current_min)

\* lines 62-89: the while loop
RECURSIVE serrated_loop(_, _, _, _)
serrated_loop(blocks, current_min, last_min, block_idx) ==
    IF ~(current_min < last_min) THEN blocks
    ELSE LET len == block_len(block_idx, current_min, last_min)
             next_min == current_min + len
             block == IF block_idx % 2 = 0
                      THEN ScriptBlock("INVESTIGATION", Timecode(current_min),
                                       Timecode(next_min), <<>>, "", 60)
                      ELSE ScriptBlock("REHOOK", Timecode(current_min),
                                       Timecode(next_min), <<>>,
                                       "[new conflict / plot turn]", 80)
         IN  IF len <= 0 THEN blocks
             ELSE serrated_loop(Append(blocks, block), next_min, last_min,
                                block_idx + 1)

generate_serrated_edge(total_duration_min) ==
    LET first == <<ScriptBlock("HIGH_START", "00:00", "01:00", <<>>, "", 95),
                   ScriptBlock("CONTEXT_BRIDGE", "01:00", "03:00", <<>>,
                               "[rehook: bring in a new conflict]", 35)>>
        last_min == end_min(total_duration_min)
        middle == serrated_loop(first, 3, last_min, 0)
    IN  Append(middle,
               ScriptBlock("SYNTHESIS", Timecode(last_min),
                           Timecode(total_duration_min), <<>>, "", 90))

(***************************************************************************)
(* Stage executors (agents.py).  Texts are kept as short tokens; the       *)
(* fields that one stage hands to the next are kept.                       *)
(***************************************************************************)
AGENT_PIPELINE_ORDER == <<"scout", "radar", "analyst", "architect", "writer">>

\* list(ContentType), with CONTENT_TYPE_META[ct]["example"] and ["hook_approach"]
ContentTypes == <<"investigation", "explainer", "geopolitics", "business">>

CONTENT_TYPE_META ==
    [investigation |-> [example |-> "contract that kills the internet",
                        hook_approach |-> "'Investigator' + 'Eyes Only'"],
     explainer     |-> [example |-> "how airfare pricing works",
                        hook_approach |-> "'Teacher' + 'System as villain'"],
     geopolitics   |-> [example |-> "the trillion dollar line on the map",
                        hook_approach |-> "'Magician' + 'Map as character'"],
     business      |-> [example |-> "why Starbucks is a bank",
                        hook_approach |-> "'Contrarian' + 'System Failure'"]]

ScoutArchetypes == <<"investigator", "teacher", "magician", "contrarian">>
ViralFactors == <<"fear", "justice", "money", "secret">>

TopicSuggestion(title, content_type, archetype, viral_factor) ==
    [title |-> title, content_type |-> content_type,
     archetype |-> archetype, viral_factor |-> viral_factor]

\* run_scout: one suggestion per content type, stored in the state
ScoutSuggestions ==
    [i \in 1..Len(ContentTypes) |->
        TopicSuggestion(CONTENT_TYPE_META[ContentTypes[i]].example,
                        ContentTypes[i], ScoutArchetypes[i], ViralFactors[i])]

run_scout(s) ==
    LET s1 == add_logs(s, <<"[SCOUT] start", "[SCOUT] scanning">>)
        s2 == add_log(s1, "[SCOUT] found topics")
    IN  [s2 EXCEPT !.scout_suggestions = ScoutSuggestions]

\* int(input(...)): the integer a line of input denotes, None on ValueError
ParseInt(line) ==
    CASE line = "0" -> Some(0) [] line = "1" -> Some(1) [] line = "2" -> Some(2)
      [] line = "3" -> Some(3) [] line = "4" -> Some(4) [] line = "5" -> Some(5)
      [] line = "6" -> Some(6) [] OTHER -> None

\* str.strip() on the lines the model types
Strip(line) ==
    CASE line = " 2 " -> "2" [] line = "1 " -> "1" [] line = " " -> ""
      [] line = " my topic " -> "my topic" [] OTHER -> line

RadarOutput(topic_suggestion) ==
    [topic |-> topic_suggestion.title,
     viral_angles |-> <<"investigator", "contrarian", "fortune_teller">>,
     target_emotion |-> topic_suggestion.viral_factor,
     contrarian_take |-> topic_suggestion.archetype]

run_radar_NoStore(s, topic_suggestion) ==
    add_log(add_logs(s, <<"[RADAR] start", "[RADAR] triggers">>), "[RADAR] done")

run_radar(s, topic_suggestion) ==
    LET s1 == add_logs(s, <<"[RADAR] start", "[RADAR] triggers">>)
        s2 == [s1 EXCEPT !.radar_output = Some(RadarOutput(topic_suggestion))]
    IN  add_log(s2, "[RADAR] done")

\* run_analyst, lines 242-250: the seven visual anchors
VisualAnchors ==
    <<"secret document with a stamp", "map with an anomaly",
      "chart with a sharp turn of the trend", "photograph of the key event",
      "screenshot of a contract", "before/after infographic",
      "timeline of events with dates">>

\* lines 256-265: one loop per anchor named in the comprehension
LoopAnchors == <<"stamped document", "map anomaly", "trend chart">>

ResearchDossier(radar) ==
    [topic |-> radar.topic,
     n_claims |-> 3,
     n_counter_claims |-> 2,
     visual_anchors |-> VisualAnchors,
     n_data_points |-> 3,
     evidence_loops |->
         [i \in 1..Len(LoopAnchors) |->
             EvidenceLoop("Hypothesis about " \o radar.topic \o ".",
                          "Look at this document.",
                          "[Visual anchor: " \o LoopAnchors[i] \o "]",
                          "Interpretation: this means that...",
                          "BUT this creates a new problem, THEREFORE...")],
     shocking_artifact |-> "The document that proves the hidden truth about "
                               \o radar.topic]

run_analyst(s, radar) ==
    LET s1 == add_logs(s, <<"[ANALYST] start", "[ANALYST] search">>)
        s2 == [s1 EXCEPT !.research_dossier = Some(ResearchDossier(radar))]
    IN  add_log(s2, "[ANALYST] dossier")

\* lines 333-342 without the branch for the magician
ChooseArchetype_NoMagician(content_type) ==
    IF content_type = None \/ content_type[1] = "" THEN "INVESTIGATOR"
    ELSE LET approach == Get(Get(CONTENT_TYPE_META, content_type[1],
                                 [hook_approach |-> ""]), "hook_approach", "")
         IN  IF Contains(approach, "Contrarian") THEN "CONTRARIAN"
             ELSE IF Contains(approach, "Teacher") THEN "TEACHER"
             ELSE "INVESTIGATOR"

\* run_architect, lines 333-342: the archetype of the hook (a HookArchetype
\* member); content_type is None or Some(text)
ChooseArchetype(content_type) ==
    IF content_type = None \/ content_type[1] = "" THEN "INVESTIGATOR"
    ELSE LET approach == Get(Get(CONTENT_TYPE_META, content_type[1],
                                 [hook_approach |-> ""]), "hook_approach", "")
         IN  IF Contains(approach, "Contrarian") THEN "CONTRARIAN"
             ELSE IF Contains(approach, "Teacher") THEN "TEACHER"
             ELSE IF Contains(approach, "Magician") THEN "MAGICIAN"
             ELSE "INVESTIGATOR"

\* lines 344-363
architect_hook(archetype, dossier) ==
    Hook(archetype,
         HookStep("Context + anchor", "Instant clarity and sensory proof",
                  "Look at this. [" \o dossier.shocking_artifact \o "]",
                  "[" \o (IF dossier.visual_anchors # <<>>
                          THEN dossier.visual_anchors[1] ELSE "Visual anchor") \o "]"),
         HookStep("Stop intervention", "Pattern interrupt",
                  "But wait. This is not what you think.",
                  "Sharp zoom, colour shift, scratch sound"),
         HookStep("Contrarian snapback", "Curiosity gap",
                  "Because behind it hides a problem nobody will tell you about.",
                  "Infographic / map / document with the key phrase highlighted"))

\* line 371 without the test of the phase
takes_loop_AnyPhase(block) == TRUE

\* line 371: block.phase in (INVESTIGATION, REHOOK)
takes_loop(block) == block.phase \in {"INVESTIGATION", "REHOOK"}

\* lines 369-375: the loop over the blocks, with loop_idx
RECURSIVE attach_loops(_, _, _)
attach_loops(blocks, loops, loop_idx) ==
    IF blocks = <<>> THEN <<>>
    ELSE LET block == Head(blocks)
             attach == takes_loop(block) /\ loop_idx < Len(loops)
         IN  <<IF attach
               THEN [block EXCEPT !.evidence_loops = Append(@, loops[loop_idx + 1])]
               ELSE block>>
             \o attach_loops(Tail(blocks), loops,
                             IF attach THEN loop_idx + 1 ELSE loop_idx)

\* text[:n]
Prefix(text, n) == SubSeq(text, 1, Min(n, Len(text)))

\* lines 330-401: the blueprint that run_architect builds
StructureBlueprint(s, dossier) ==
    [title |-> Prefix(dossier.topic, 60),
     promise |-> "Reveal the hidden truth about " \o dossier.topic,
     hook |-> architect_hook(ChooseArchetype(s.content_type), dossier),
     blocks |-> attach_loops(generate_serrated_edge(12), dossier.evidence_loops, 0),
     thumbnail_concept |-> IF dossier.visual_anchors # <<>>
                           THEN dossier.visual_anchors[1] ELSE "document",
     duration_min |-> 12,
     but_therefore_chain |-> "Promise. BUT. THEREFORE. BUT. THEREFORE. BUT. THEREFORE."]

run_architect(s, dossier) ==
    LET s1 == add_logs(s, <<"[ARCHITECT] start", "[ARCHITECT] designing">>)
        s2 == [s1 EXCEPT !.structure_blueprint = Some(StructureBlueprint(s, dossier))]
    IN  add_log(s2, "[ARCHITECT] done")

\* lines 444-459, keyed by the value of the enum member
_SFX_MAP ==
    [v \in {VisualType[m] : m \in DOMAIN VisualType} |->
        CASE v \in {"document", "map"} -> "paper rustle"
          [] v = "text_overlay" -> "whoosh"
          [] v = "snap_zoom" -> "boom hit"
          [] v = "meme_reference" -> "comedy sting"
          [] OTHER -> ""]

_MUSIC_MAP ==
    [high_start |-> "ambient tense", context_bridge |-> "ambient calm",
     rehook |-> "driving beat rising", investigation |-> "driving beat steady",
     synthesis |-> "epic piano"]

\* f"{n:02d}" for n >= 0
TwoDigits(n) == (IF n < 10 THEN "0" ELSE "") \o IntToStr(n)

\* f"{current_sec // 60:02d}:{current_sec % 60:02d}"
timecode_of(current_sec) == TwoDigits(current_sec \div 60) \o ":" \o TwoDigits(current_sec % 60)

\* what run_writer carries from line to line: av_lines, current_sec, vtype_idx
WriterStart == [av_lines |-> <<>>, current_sec |-> 0, vtype_idx |-> 0]

\* av_lines.append(AVLine(tc, ...)) with tc from current_sec; current_sec += dur;
\* vtype_idx += step  (x is the value of w, evaluated once)
emit(w, audio_text, visual_description, vtype, sfx, music, dur, step) ==
    CHOOSE after \in
        {[av_lines |-> Append(x.av_lines,
                              AVLine(timecode_of(x.current_sec), audio_text,
                                     visual_description, vtype, sfx, music)),
          current_sec |-> x.current_sec + dur,
          vtype_idx |-> x.vtype_idx + step] : x \in {w}} : TRUE

\* lines 482-494: the three lines of the hook
RECURSIVE hook_lines(_, _, _)
hook_lines(w, hook_steps, i) ==
    IF i >= Len(hook_steps) THEN w
    ELSE LET step == hook_steps[i + 1]
             dur == IF i < 2 THEN 2 ELSE 3
             vtype == IF i = 0 THEN "DOCUMENT"
                      ELSE IF i = 1 THEN "SNAP_ZOOM" ELSE "TEXT_OVERLAY"
         IN  hook_lines(emit(w, step.text,
                             IF step.visual # "" THEN step.visual
                             ELSE "[" \o step.name \o "]",
                             vtype, _SFX_MAP[VisualType[vtype]],
                             _MUSIC_MAP["high_start"], dur, 0),
                        hook_steps, i + 1)

\* lines 497-501
visual_types_cycle ==
    <<"TALKING_HEAD", "DOCUMENT", "MAP", "BROLL", "TEXT_OVERLAY", "STOCK_FOOTAGE",
      "SNAP_ZOOM", "TALKING_HEAD", "DOCUMENT">>

\* lines 509-540: the four lines of one evidence loop
loop_lines(w, loop, music) ==
    CHOOSE after \in
        {LET vtype == visual_types_cycle[(x.vtype_idx % Len(visual_types_cycle)) + 1]
             w1 == emit(x, loop.context, "[" \o VisualType[vtype] \o "]", vtype,
                        _SFX_MAP[VisualType[vtype]], music, 4, 1)
             w2 == emit(w1, loop.deictic_driver, "[" \o loop.evidence \o "]",
                        "DOCUMENT", "paper rustle", music, 3, 1)
             w3 == emit(w2, loop.reveal, "[Highlight of the key phrase]",
                        "TEXT_OVERLAY", "whoosh", music, 4, 0)
         IN  emit(w3, loop.transition, "[Zoom on the author / new visual]",
                  "SNAP_ZOOM", "boom hit", music, 3, 1) : x \in {w}} : TRUE

RECURSIVE loops_lines(_, _, _)
loops_lines(w, loops, music) ==
    IF loops = <<>> THEN w
    ELSE loops_lines(loop_lines(w, Head(loops), music), Tail(loops), music)

\* lines 504-548 with the rehook line written whatever block.rehook_text is
block_lines_AlwaysRehook(w, block) ==
    emit(loops_lines(w, block.evidence_loops, _MUSIC_MAP[SerratedPhase[block.phase]]),
         block.rehook_text, "[Sharp cut / new conflict]", "SNAP_ZOOM",
         "boom hit", _MUSIC_MAP["rehook"], 3, 0)

\* lines 504-548: the lines of one block, its loops and then its rehook
block_lines(w, block) ==
    LET w1 == loops_lines(w, block.evidence_loops,
                          _MUSIC_MAP[SerratedPhase[block.phase]])
    IN  IF block.rehook_text # ""
        THEN emit(w1, block.rehook_text, "[Sharp cut / new conflict]", "SNAP_ZOOM",
                  "boom hit", _MUSIC_MAP["rehook"], 3, 0)
        ELSE w1

RECURSIVE blocks_lines(_, _)
blocks_lines(w, blocks) ==
    IF blocks = <<>> THEN w
    ELSE blocks_lines(block_lines(w, Head(blocks)), Tail(blocks))

\* lines 551-561: the two closing lines
closing_lines(w) ==
    LET w1 == emit(w, "Honestly, the answer is not that simple.",
                   "[Author in close-up, soft light]", "TALKING_HEAD", "",
                   _MUSIC_MAP["synthesis"], 4, 0)
    IN  emit(w1, "In fact, the question stays open. And it is for you to decide.",
             "[Black screen with the text of the question]", "TEXT_OVERLAY",
             "whoosh", _MUSIC_MAP["synthesis"], 5, 0)

RECURSIVE Sum(_)
Sum(counts) == IF counts = <<>> THEN 0 ELSE Head(counts) + Sum(Tail(counts))

\* lines 478-578: the output that run_writer builds
WriterOutput(blueprint, dossier) ==
    CHOOSE output \in
        {[script |-> AVScript(blueprint.title, blueprint.promise, Some(blueprint.hook),
                              blueprint.blocks, w.av_lines, w.current_sec),
          word_count |-> Sum([i \in 1..Len(w.av_lines) |->
                                 word_count(w.av_lines[i].audio_text)]),
          block_count |-> Len(w.av_lines)] :
         w \in {closing_lines(blocks_lines(hook_lines(WriterStart,
                                                      steps(blueprint.hook), 0),
                                           blueprint.blocks))}} : TRUE

run_writer(s, blueprint, dossier) ==
    LET s1 == add_logs(s, <<"[WRITER] start", "[WRITER] generating">>)
        s2 == [s1 EXCEPT !.writer_output = Some(WriterOutput(blueprint, dossier))]
    IN  add_log(s2, "[WRITER] script ready")

(***************************************************************************)
(* The orchestrator (orchestrator.py).  run_pipeline is one thread; its    *)
(* steps are the stretches of code between two observable points: a        *)
(* blocking input(), an assignment to current_agent, a stage executor.     *)
(***************************************************************************)
\* The lines typed at the prompts
ScoutLines == {"0", "1", "2", "3", "4", "5", "6", "abc", ""}
TitleLines == {"", " my topic ", "my topic"}
ApprovalLines == {"1", "2", " 2 ", "1 ", "", " ", "abc"}

NoInput == [prompt |-> "none", line |-> ""]

NoLocals == [topic_suggestion |-> None, radar_output |-> None, dossier |-> None,
             blueprint |-> None, writer_output |-> None]

\* _wait_for_approval, line 54: the status while the prompt is shown
wait_status_Unchanged(s) == s

wait_status(s) == [s EXCEPT !.step_status = "waiting"]

\* `if steppable and not _wait_for_approval(...)`: is the prompt shown at all
must_wait(is_steppable) == is_steppable

\* _wait_for_approval, line 62: every choice but "2" approves
approved_Always(choice) == TRUE

approved(choice) == choice # "2"

\* run_pipeline, lines 142-143
complete_KeepProcessing(s) == [s EXCEPT !.current_agent = "completed"]

complete(s) == [s EXCEPT !.current_agent = "completed", !.is_processing = FALSE]

\* the stage entered once the named agent is approved
NextStage(agent_name) ==
    CASE agent_name = "scout" -> "enter_radar"
      [] agent_name = "radar" -> "enter_analyst"
      [] agent_name = "analyst" -> "enter_architect"
      [] agent_name = "architect" -> "enter_writer"

\* The code that follows the return of a stage executor: the approval prompt in
\* step-and-approve mode, else the next stage.
AfterStage(s, agent_name) ==
    IF must_wait(steppable)
    THEN /\ state' = wait_status(s)
         /\ pc' = "approval"
         /\ prompt_after' = agent_name
         /\ prompts' = prompts + 1
    ELSE /\ state' = s
         /\ pc' = NextStage(agent_name)
         /\ UNCHANGED <<prompt_after, prompts>>

\* lines 83-98, to the first input() of run_scout_interactive
Start ==
    /\ pc = "start"
    /\ LET s1 == add_log(state, "[ORCHESTRATOR] start")
           s2 == [s1 EXCEPT !.current_agent = "scout", !.is_processing = TRUE]
       IN  state' = run_scout(s2)
    /\ pc' = "scout_input"
    /\ visited' = Append(visited, "scout")
    /\ called' = Append(called, "scout")
    /\ UNCHANGED <<fvars, added, gvars, steppable, locals, prompt_after, prompts, last_input>>

\* agents.py 120-144 and orchestrator.py 99-102: one line typed at "1-5"
ScoutInput(line) ==
    /\ pc = "scout_input"
    /\ last_input' = [prompt |-> "scout", line |-> line]
    /\ LET choice == ParseInt(line)
       IN  IF choice = None \/ ~(1 <= choice[1] /\ choice[1] <= 5)
           THEN UNCHANGED <<state, pc, locals, prompt_after, prompts>>
           ELSE IF choice[1] = 5
           THEN /\ pc' = "scout_custom"
                /\ UNCHANGED <<state, locals, prompt_after, prompts>>
           ELSE LET selected == state.scout_suggestions[choice[1]]
                    s1 == [state EXCEPT !.topic = selected.title,
                                        !.content_type = Some(selected.content_type)]
                    s2 == add_log(s1, "[SCOUT] topic selected")
                    s3 == add_log(s2, "[ORCHESTRATOR] scout topic")
                IN  /\ locals' = [locals EXCEPT !.topic_suggestion = Some(selected)]
                    /\ AfterStage(s3, "scout")
    /\ UNCHANGED <<fvars, added, gvars, steppable, visited, called>>

\* agents.py 129-138 and orchestrator.py 99-102: the user's own topic
ScoutCustom(line) ==
    /\ pc = "scout_custom"
    /\ last_input' = [prompt |-> "custom", line |-> line]
    /\ LET custom_title == Strip(line)
           s1 == [state EXCEPT !.topic = custom_title]
           s2 == add_log(s1, "[ORCHESTRATOR] scout topic")
       IN  /\ locals' = [locals EXCEPT !.topic_suggestion =
                   Some(TopicSuggestion(custom_title, "investigation",
                                        "investigator", "custom"))]
           /\ AfterStage(s2, "scout")
    /\ UNCHANGED <<fvars, added, gvars, steppable, visited, called>>

\* _wait_for_approval, lines 61-68, and the `return state` of the caller
Approval(line) ==
    /\ pc = "approval"
    /\ last_input' = [prompt |-> "approval", line |-> line]
    /\ LET choice == Strip(line)
       IN  IF approved(choice)
           THEN /\ state' = [state EXCEPT !.step_status = "processing"]
                /\ pc' = NextStage(prompt_after)
           ELSE /\ state' = add_log(state, "[ORCHESTRATOR] cancelled")
                /\ pc' = "return_cancelled"
    /\ UNCHANGED <<fvars, added, gvars, steppable, locals, prompt_after, visited, called, prompts>>

\* input() raises (EOFError, KeyboardInterrupt): run_pipeline raises
InputRaises ==
    /\ pc \in {"scout_input", "scout_custom", "approval"}
    /\ pc' = "raised"
    /\ last_input' = [prompt |-> "eof", line |-> ""]
    /\ UNCHANGED <<fvars, added, gvars, state, steppable, locals, prompt_after, visited, called,
                   prompts>>

Enter(at, agent, run_at) ==
    /\ pc = at
    /\ state' = [state EXCEPT !.current_agent = agent]
    /\ pc' = run_at
    /\ visited' = Append(visited, agent)
    /\ UNCHANGED <<fvars, added, gvars, steppable, locals, prompt_after, called, prompts, last_input>>

\* lines 105-106
EnterRadar == Enter("enter_radar", "radar", "run_radar")

\* lines 108-112
RunRadar ==
    /\ pc = "run_radar"
    /\ LET ts == locals.topic_suggestion[1]
       IN  /\ locals' = [locals EXCEPT !.radar_output = Some(RadarOutput(ts))]
           /\ AfterStage(run_radar(state, ts), "radar")
    /\ called' = Append(called, "radar")
    /\ UNCHANGED <<fvars, added, gvars, steppable, visited, last_input>>

\* lines 115-116
EnterAnalyst == Enter("enter_analyst", "analyst", "run_analyst")

\* lines 118-122
RunAnalyst ==
    /\ pc = "run_analyst"
    /\ LET radar == locals.radar_output[1]
       IN  /\ locals' = [locals EXCEPT !.dossier = Some(ResearchDossier(radar))]
           /\ AfterStage(run_analyst(state, radar), "analyst")
    /\ called' = Append(called, "analyst")
    /\ UNCHANGED <<fvars, added, gvars, steppable, visited, last_input>>

\* lines 125-126
EnterArchitect == Enter("enter_architect", "architect", "run_architect")

\* lines 128-132
RunArchitect ==
    /\ pc = "run_architect"
    /\ LET dossier == locals.dossier[1]
       IN  /\ locals' = [locals EXCEPT !.blueprint =
                                          Some(StructureBlueprint(state, dossier))]
           /\ AfterStage(run_architect(state, dossier), "architect")
    /\ called' = Append(called, "architect")
    /\ UNCHANGED <<fvars, added, gvars, steppable, visited, last_input>>

\* lines 135-136
EnterWriter == Enter("enter_writer", "writer", "run_writer")

\* lines 138-139: no approval prompt follows the writer
RunWriter ==
    /\ pc = "run_writer"
    /\ LET blueprint == locals.blueprint[1]
           dossier == locals.dossier[1]
       IN  /\ locals' = [locals EXCEPT !.writer_output =
                                          Some(WriterOutput(blueprint, dossier))]
           /\ state' = run_writer(state, blueprint, dossier)
    /\ pc' = "complete"
    /\ called' = Append(called, "writer")
    /\ UNCHANGED <<fvars, added, gvars, steppable, prompt_after, visited, prompts, last_input>>

\* lines 142-143
Complete ==
    /\ pc = "complete"
    /\ state' = complete(state)
    /\ pc' = "export"
    /\ visited' = Append(visited, "completed")
    /\ UNCHANGED <<fvars, added, gvars, steppable, locals, prompt_after, called, prompts, last_input>>

\* lines 146-161: the export succeeds or raises (caught), then `return state`
Finish(export_ok) ==
    /\ pc = "export"
    /\ LET s1 == add_log(state, IF export_ok THEN "[ORCHESTRATOR] exported"
                                             ELSE "[ORCHESTRATOR] export error")
       IN  state' = add_log(s1, "[ORCHESTRATOR] finished")
    /\ pc' = "return_completed"
    /\ UNCHANGED <<fvars, added, gvars, steppable, locals, prompt_after, visited, called, prompts, last_input>>

\* The caller holds the state that run_pipeline returned and resets it
\* (PipelineState.reset is the only operation on a state outside a run).
Reset ==
    /\ pc \in {"return_cancelled", "return_completed"}
    /\ state' = reset(state)
    /\ pc' = "reset_done"
    /\ UNCHANGED <<fvars, added, gvars, steppable, locals, prompt_after, visited, called, prompts, last_input>>

\* no library function is being called on its own
FunctionsIdle ==
    /\ fpc = "off"
    /\ arg = None
    /\ ret = None

GatewayIdle ==
    /\ gpc = "off"
    /\ endpoint = "none"
    /\ attempt = 0
    /\ requests = 0
    /\ outcomes = <<>>
    /\ last_error = None
    /\ call_result = None
    /\ sleeps = <<>>
    /\ glog = <<>>
    /\ response = None

\* run_pipeline(steppable) has built its PipelineState (line 83)
Init ==
    /\ steppable \in BOOLEAN
    /\ state = PipelineState(steppable)
    /\ pc = "start"
    /\ locals = NoLocals
    /\ prompt_after = "none"
    /\ visited = <<>>
    /\ called = <<>>
    /\ prompts = 0
    /\ last_input = NoInput
    /\ added = 0
    /\ GatewayIdle
    /\ FunctionsIdle

\* the steps that wait for nothing outside the program
Progress ==
    \/ Start
    \/ EnterRadar \/ RunRadar
    \/ EnterAnalyst \/ RunAnalyst
    \/ EnterArchitect \/ RunArchitect
    \/ EnterWriter \/ RunWriter
    \/ Complete
    \/ \E export_ok \in BOOLEAN : Finish(export_ok)

Next ==
    \/ Progress
    \/ \E line \in ScoutLines : ScoutInput(line)
    \/ \E line \in TitleLines : ScoutCustom(line)
    \/ \E line \in ApprovalLines : Approval(line)
    \/ InputRaises
    \/ Reset

Spec == Init /\ [][Next]_vars

\* run_pipeline is straight-line code: between two inputs it runs on by itself
SpecFair == Spec /\ WF_vars(Progress)

(***************************************************************************)
(* Properties of run_pipeline                                              *)
(***************************************************************************)
StagesThenCompleted == AGENT_PIPELINE_ORDER \o <<"completed">>

IsPrefix(a, b) == Len(a) <= Len(b) /\ a = SubSeq(b, 1, Len(a))

StageIndex(agent_name) == CHOOSE i \in 1..5 : AGENT_PIPELINE_ORDER[i] = agent_name

\* the state is the one run_pipeline works on or has returned (not yet reset)
InRun == pc # "reset_done"

\* the output of stage k is in the PipelineState
OutputStored(k) ==
    CASE k = 1 -> state.scout_suggestions # <<>> /\ locals.topic_suggestion # None
      [] k = 2 -> state.radar_output # None
      [] k = 3 -> state.research_dossier # None
      [] k = 4 -> state.structure_blueprint # None
      [] k = 5 -> state.writer_output # None

\* the executor of stage k has returned its output to run_pipeline
Produced(k) ==
    CASE k = 1 -> locals.topic_suggestion # None
      [] k = 2 -> locals.radar_output # None
      [] k = 3 -> locals.dossier # None
      [] k = 4 -> locals.blueprint # None
      [] k = 5 -> locals.writer_output # None

NumProduced == Cardinality({k \in 1..5 : Produced(k)})

AllOutputsStored == \A k \in 1..5 : OutputStored(k)

\* C1: current_agent only moves forward through scout, radar, analyst, architect,
\* writer, completed, in that order and without skipping or revisiting; a stage is
\* entered only once the previous stage's output is in the PipelineState
\* (radar_output before analyst, research_dossier before architect,
\* structure_blueprint before writer, writer_output before completed).
C1_StagesInOrder ==
    /\ IsPrefix(visited, StagesThenCompleted)
    /\ InRun =>
          /\ state.current_agent =
                 (IF visited = <<>> THEN "idle" ELSE visited[Len(visited)])
          /\ Len(visited) >= 3 => state.radar_output # None
          /\ Len(visited) >= 4 => state.research_dossier # None
          /\ Len(visited) >= 5 => state.structure_blueprint # None
          /\ Len(visited) >= 6 => state.writer_output # None

C1_Witness ==
    /\ pc = "return_completed"
    /\ visited = StagesThenCompleted
    /\ state.current_agent = "completed"

\* C2: a cancel at the approval prompt after stage k makes run_pipeline return at
\* once, without raising: no later executor is called, no later stage is entered
\* (so current_agent never becomes completed), the outputs of stages 1..k are in
\* the returned state and those of the later stages are absent.
C2_CancelReturnsPartialState ==
    /\ (last_input.prompt = "approval" /\ Strip(last_input.line) = "2")
          => pc \in {"return_cancelled", "reset_done"}
    /\ pc = "return_cancelled" =>
          LET k == StageIndex(prompt_after)
          IN  /\ last_input.prompt = "approval"
              /\ called = SubSeq(AGENT_PIPELINE_ORDER, 1, k)
              /\ visited = SubSeq(AGENT_PIPELINE_ORDER, 1, k)
              /\ state.current_agent = prompt_after
              /\ \A j \in 1..5 : OutputStored(j) <=> j <= k

C2_Witness ==
    /\ pc = "return_cancelled"
    /\ prompt_after = "analyst"
    /\ state.research_dossier # None
    /\ state.structure_blueprint = None

\* C3 as stated: in step-and-approve mode there is a pause after each of the five
\* stages, the writer included: every output produced has been followed by an
\* approval prompt.
C3_PauseAfterAllFiveStages ==
    (steppable /\ InRun) => prompts = NumProduced

\* C3 as amended: in step-and-approve mode the orchestrator pauses after each of
\* the first four stages (scout, radar, analyst, architect): once the stage has
\* produced its output, step_status is waiting and no executor is called and no
\* stage entered until a decision is received; the next stage is entered only on
\* an approving decision. After the writer there is no pause.
C3_PauseAfterFirstFourStages ==
    (steppable /\ InRun) =>
        /\ prompts = Min(NumProduced, 4)
        /\ pc = "approval" =>
              /\ state.step_status = "waiting"
              /\ NumProduced = StageIndex(prompt_after)
              /\ Len(called) = NumProduced
              /\ Len(visited) = NumProduced
        /\ pc \in {"enter_radar", "enter_analyst", "enter_architect", "enter_writer"} =>
              /\ last_input.prompt = "approval"
              /\ Strip(last_input.line) # "2"
              /\ state.step_status = "processing"
        /\ (NumProduced < 5 /\ pc \notin {"approval", "raised", "return_cancelled"}) =>
              state.step_status # "waiting"
        /\ NumProduced = 5 => state.step_status = "processing"

C3_Witness ==
    /\ steppable
    /\ pc = "approval"
    /\ prompt_after = "architect"
    /\ state.step_status = "waiting"

\* C4: in automatic mode no approval is ever asked for and step_status is never
\* waiting; once a topic is selected the run reaches current_agent = completed
\* with is_processing = FALSE and all five outputs stored.
C4_AutomaticRunsThrough ==
    /\ [](~steppable => (prompts = 0 /\ pc # "approval"
                          /\ state.step_status # "waiting"))
    /\ (~steppable /\ InRun /\ locals.topic_suggestion # None)
          ~> (/\ state.current_agent = "completed"
              /\ ~state.is_processing
              /\ AllOutputsStored)

C4_Witness ==
    /\ ~steppable
    /\ pc = "return_completed"
    /\ state.current_agent = "completed"
    /\ ~state.is_processing
    /\ AllOutputsStored

\* C10 as stated: after reset() every field has the value it has in a freshly
\* constructed PipelineState, is_steppable = FALSE included.
C10_ResetGivesFreshState ==
    pc = "reset_done" => state = PipelineState(FALSE)

(***************************************************************************)
(* PipelineState.add_log alone: the n-th call adds the message n           *)
(***************************************************************************)
MaxAdds == 503

InitLog ==
    /\ steppable \in BOOLEAN
    /\ state = PipelineState(steppable)
    /\ pc = "log_only"
    /\ locals = NoLocals
    /\ prompt_after = "none"
    /\ visited = <<>>
    /\ called = <<>>
    /\ prompts = 0
    /\ last_input = NoInput
    /\ added = 0
    /\ GatewayIdle
    /\ FunctionsIdle

AddLog ==
    /\ pc = "log_only"
    /\ added < MaxAdds
    /\ state' = add_log(state, added + 1)
    /\ added' = added + 1
    /\ UNCHANGED <<fvars, gvars, pc, steppable, locals, prompt_after, visited, called, prompts,
                   last_input>>

NextLog == AddLog

SpecLog == InitLog /\ [][NextLog]_vars

\* C9: after any sequence of add_log calls, logs holds at most 500 entries: the
\* most recent min(n, 500) messages, in the order they were added.
C9_LogsKeepMostRecent ==
    pc = "log_only" =>
        LET n == Min(added, 500)
        IN  /\ Len(state.logs) <= 500
            /\ Len(state.logs) = n
            /\ \A i \in 1..n : state.logs[i] = added - n + i

C9_Witness ==
    /\ pc = "log_only"
    /\ added = 502
    /\ Len(state.logs) = 500
    /\ state.logs[1] = 3
    /\ state.logs[500] = 502

(***************************************************************************)
(* The Gemini gateway and the HTTP endpoints (src/main.py)                 *)
(***************************************************************************)
RETRY_COUNT == 3
RETRY_BASE_DELAY == 1

DEFAULT_MODEL == "gemini-2.0-flash"

\* the endpoints, the agent name each passes to call_gemini, and its json_mode
TextEndpoints == {"scout", "radar", "analyst", "architect", "writer"}

AgentName(ep) ==
    CASE ep = "scout" -> "SCOUT" [] ep = "radar" -> "RADAR"
      [] ep = "analyst" -> "ANALYST" [] ep = "architect" -> "ARCHITECT"
      [] ep = "writer" -> "WRITER"

json_mode(ep) == ep \in {"scout", "analyst", "writer"}

\* What one httpx.post can lead to: an exception of the client, or a response
\* with a status, a body that resp.json() can or cannot decode, and in the
\* decoded body the candidates, each a list of parts.
TextPart(t) == [text |-> Some(t), inlineData |-> None]
InlinePart(mime, data) ==
    [text |-> None, inlineData |-> Some([mimeType |-> mime, data |-> data])]

PartsChoices ==
    {<<>>,
     <<TextPart("")>>,
     <<TextPart("["), TextPart("]")>>,
     <<TextPart("{}")>>,
     <<TextPart("[{}]")>>,
     <<TextPart("Sorry, I cannot")>>,
     <<InlinePart(Some("image/jpeg"), "QUJD")>>,
     <<TextPart("Here it is"), InlinePart(None, "QUJD")>>}

HttpResponse(status, json_ok, candidates) ==
    [kind |-> "response", status |-> status, json_ok |-> json_ok,
     candidates |-> candidates]

HttpOutcomes ==
    {[kind |-> "exception", status |-> 0, json_ok |-> FALSE, candidates |-> <<>>],
     HttpResponse(500, TRUE, <<>>),
     HttpResponse(200, FALSE, <<>>),
     HttpResponse(200, TRUE, <<>>)}
    \cup {HttpResponse(200, TRUE, <<parts>>) : parts \in PartsChoices}

\* lines 376-380: the texts of the parts that have one, concatenated
RECURSIVE ExtractText(_)
ExtractText(parts) ==
    IF parts = <<>> THEN ""
    ELSE (IF Head(parts).text # None THEN Head(parts).text[1] ELSE "")
         \o ExtractText(Tail(parts))

GatewayError(type, at) == [type |-> type, at |-> at]

\* lines 352-387: one pass through the try block; `at` is the attempt it is part of
try_request(outcome, at) ==
    IF outcome.kind = "exception"
    THEN [ok |-> FALSE, text |-> "", error |-> GatewayError("httpx error", at)]
    ELSE IF outcome.status # 200
    THEN [ok |-> FALSE, text |-> "", error |-> GatewayError("RuntimeError: Gemini API", at)]
    ELSE IF ~outcome.json_ok
    THEN [ok |-> FALSE, text |-> "", error |-> GatewayError("JSONDecodeError", at)]
    ELSE IF outcome.candidates = <<>>
    THEN [ok |-> FALSE, text |-> "",
          error |-> GatewayError("ValueError: empty candidates", at)]
    ELSE LET text == ExtractText(outcome.candidates[1])
         IN  IF text = ""
             THEN [ok |-> FALSE, text |-> "",
                   error |-> GatewayError("ValueError: Empty text", at)]
             ELSE [ok |-> TRUE, text |-> text, error |-> GatewayError("none", at)]

\* line 351: range(RETRY_COUNT + 1)
attempts_range_OneMore == RETRY_COUNT + 2

attempts_range == RETRY_COUNT + 1

\* line 390: last_error = e
record_error_KeepFirst(previous, e) == IF previous = None THEN Some(e) ELSE previous

record_error(previous, e) == Some(e)

\* line 392 with a wait that grows by the base delay instead of doubling
backoff_Linear(at) == RETRY_BASE_DELAY * (at + 1)

\* line 392: wait = RETRY_BASE_DELAY * (2 ** attempt)
backoff(at) == RETRY_BASE_DELAY * (2 ^ at)

\* lines 353-354, 385-386, 393-394, 397: the lines given to log()
\* lines 353-354 with the attempt number also on the first attempt
RequestLine_AlwaysNumbered(agent_name, at) ==
    [line |-> "request", agent |-> agent_name, model |-> DEFAULT_MODEL,
     attempt_no |-> Some(at + 1)]

RequestLine(agent_name, at) ==
    [line |-> "request", agent |-> agent_name, model |-> DEFAULT_MODEL,
     attempt_no |-> IF at > 0 THEN Some(at + 1) ELSE None]
OkLine(agent_name) == [line |-> "ok", agent |-> agent_name]
ErrorLine(agent_name, e) == [line |-> "error", agent |-> agent_name, error |-> e]
RetryLine(wait) == [line |-> "retrying", wait |-> wait]
ExhaustedLine(agent_name) == [line |-> "exhausted", agent |-> agent_name]
EndpointLine(ep, what) == [line |-> what, agent |-> ep]

\* json.loads(text) on the texts the model sends: the kind of document, or None
json_loads(text) ==
    CASE text = "[]" -> Some("empty list")
      [] text = "{}" -> Some("empty object")
      [] text = "[{}]" -> Some("list of objects")
      [] OTHER -> None

\* the code of each JSON endpoint after json.loads: does it accept the document
shape_ok(ep, document) ==
    CASE ep = "scout" -> TRUE
      [] ep = "analyst" -> document = "empty object"
      [] ep = "writer" -> document \in {"empty list", "list of objects"}

HttpError(detail) == [status |-> 500, body |-> detail]
HttpOk(body) == [status |-> 200, body |-> body]

\* the endpoint's code after call_gemini has returned `text`, to its response
endpoint_response_RawOnBadJson(ep, text) ==
    IF ~json_mode(ep) \/ json_loads(text) = None THEN HttpOk(text)
    ELSE IF shape_ok(ep, json_loads(text)[1]) THEN HttpOk(json_loads(text)[1])
    ELSE HttpError("AttributeError or TypeError")

endpoint_response(ep, text) ==
    IF ~json_mode(ep) THEN HttpOk(text)
    ELSE IF json_loads(text) = None THEN HttpError("JSONDecodeError")
    ELSE IF shape_ok(ep, json_loads(text)[1]) THEN HttpOk(json_loads(text)[1])
    ELSE HttpError("AttributeError or TypeError")

\* lines 428-436: the first part with a non-empty inlineData, as a data URI
RECURSIVE FirstInline(_)
FirstInline(parts) ==
    IF parts = <<>> THEN None
    ELSE IF Head(parts).inlineData # None
    THEN LET inline == Head(parts).inlineData[1]
             mime == IF inline.mimeType # None THEN inline.mimeType[1] ELSE "image/png"
         IN  Some("data:" \o mime \o ";base64," \o inline.data)
    ELSE FirstInline(Tail(parts))

Returned(value) == [kind |-> "return", value |-> value]
Raised(e) == [kind |-> "raise", value |-> e]

call_gemini_image_RaisesOnStatus(outcome) ==
    IF outcome.kind = "exception" THEN Returned(None)
    ELSE IF outcome.status # 200 THEN Raised(GatewayError("RuntimeError: Gemini API", 0))
    ELSE IF ~outcome.json_ok THEN Returned(None)
    ELSE IF outcome.candidates = <<>> THEN Returned(None)
    ELSE Returned(FirstInline(outcome.candidates[1]))

\* lines 413-438
call_gemini_image(outcome) ==
    IF outcome.kind = "exception" THEN Returned(None)
    ELSE IF outcome.status # 200 THEN Returned(None)
    ELSE IF ~outcome.json_ok THEN Returned(None)
    ELSE IF outcome.candidates = <<>> THEN Returned(None)
    ELSE Returned(FirstInline(outcome.candidates[1]))

PipelineOff ==
    /\ steppable = FALSE
    /\ state = PipelineState(FALSE)
    /\ pc = "off"
    /\ locals = NoLocals
    /\ prompt_after = "none"
    /\ visited = <<>>
    /\ called = <<>>
    /\ prompts = 0
    /\ last_input = NoInput
    /\ added = 0

\* the server waits for a request
InitGateway ==
    /\ PipelineOff
    /\ FunctionsIdle
    /\ gpc = "idle"
    /\ endpoint = "none"
    /\ attempt = 0
    /\ requests = 0
    /\ outcomes = <<>>
    /\ last_error = None
    /\ call_result = None
    /\ sleeps = <<>>
    /\ glog = <<>>
    /\ response = None

\* a text endpoint is called: its code up to the first httpx.post of call_gemini
TextRequest(ep) ==
    /\ gpc = "idle"
    /\ ep \in TextEndpoints
    /\ endpoint' = ep
    /\ glog' = Append(glog, EndpointLine(ep, "endpoint start"))
    /\ gpc' = "attempt"
    /\ UNCHANGED <<fvars, added, pvars, attempt, requests, outcomes, last_error, call_result,
                   sleeps, response>>

\* lines 351-399: one iteration of the retry loop, with what ends the loop
Attempt(outcome) ==
    /\ gpc = "attempt"
    /\ requests' = requests + 1
    /\ outcomes' = Append(outcomes, outcome)
    /\ LET agent_name == AgentName(endpoint)
           r == try_request(outcome, attempt)
           asked == Append(glog, RequestLine(agent_name, attempt))
       IN  IF r.ok
           THEN /\ glog' = Append(asked, OkLine(agent_name))
                /\ call_result' = Some(Returned(r.text))
                /\ gpc' = "gateway_done"
                /\ UNCHANGED <<attempt, last_error, sleeps>>
           ELSE /\ last_error' = record_error(last_error, r.error)
                /\ IF attempt < RETRY_COUNT
                   THEN /\ glog' = asked \o <<ErrorLine(agent_name, r.error),
                                              RetryLine(backoff(attempt))>>
                        /\ sleeps' = Append(sleeps, backoff(attempt))
                   ELSE /\ glog' = Append(asked, ExhaustedLine(agent_name))
                        /\ UNCHANGED sleeps
                /\ IF attempt + 1 < attempts_range
                   THEN /\ attempt' = attempt + 1
                        /\ gpc' = "attempt"
                        /\ UNCHANGED call_result
                   ELSE /\ call_result' = Some(Raised(last_error'[1]))
                        /\ gpc' = "gateway_done"
                        /\ UNCHANGED attempt
    /\ UNCHANGED <<fvars, added, pvars, endpoint, response>>

\* the endpoint's code after call_gemini: the parsing, or the except clause
TextRespond ==
    /\ gpc = "gateway_done"
    /\ endpoint \in TextEndpoints
    /\ LET result == call_result[1]
       IN  IF result.kind = "raise"
           THEN /\ response' = Some(HttpError(result.value.type))
                /\ glog' = Append(glog, EndpointLine(endpoint, "endpoint failed"))
           ELSE LET answer == endpoint_response(endpoint, result.value)
                IN  /\ response' = Some(answer)
                    /\ glog' = Append(glog, EndpointLine(endpoint,
                                   IF answer.status = 200 THEN "endpoint done"
                                   ELSE "endpoint failed"))
    /\ gpc' = "responded"
    /\ UNCHANGED <<fvars, added, pvars, endpoint, attempt, requests, outcomes, last_error,
                   call_result, sleeps>>

\* lines 613-623: image_endpoint with its one call of call_gemini_image
ImageRequest(outcome) ==
    /\ gpc = "idle"
    /\ endpoint' = "image"
    /\ requests' = requests + 1
    /\ outcomes' = Append(outcomes, outcome)
    /\ LET result == call_gemini_image(outcome)
       IN  /\ call_result' = Some(result)
           /\ IF result.kind = "raise"
              THEN /\ response' = Some(HttpError(result.value.type))
                   /\ glog' = Append(glog, EndpointLine("image", "endpoint start"))
              ELSE /\ response' = Some(HttpOk([imageUrl |-> result.value]))
                   /\ glog' = glog \o <<EndpointLine("image", "endpoint start"),
                                        EndpointLine("image",
                                            IF result.value # None THEN "image generated"
                                            ELSE "no image found")>>
    /\ gpc' = "responded"
    /\ UNCHANGED <<fvars, added, pvars, attempt, last_error, sleeps>>

NextGateway ==
    \/ \E ep \in TextEndpoints : TextRequest(ep)
    \/ \E outcome \in HttpOutcomes : Attempt(outcome)
    \/ TextRespond
    \/ \E outcome \in HttpOutcomes : ImageRequest(outcome)

SpecGateway == InitGateway /\ [][NextGateway]_vars

\* every httpx.post returns or raises within its timeout, and the code runs on
SpecGatewayFair == SpecGateway /\ WF_vars(NextGateway)

(***************************************************************************)
(* Properties of the gateway                                               *)
(***************************************************************************)
\* an attempt that fails: the client raised, the status is not 200, the body
\* cannot be decoded, there is no candidate, or the extracted text is empty
FailedAttempt(outcome) ==
    \/ outcome.kind = "exception"
    \/ outcome.status # 200
    \/ ~outcome.json_ok
    \/ outcome.candidates = <<>>
    \/ ExtractText(outcome.candidates[1]) = ""

AllFailed(os) == \A i \in 1..Len(os) : FailedAttempt(os[i])

GatewayReturned == call_result # None /\ call_result[1].kind = "return"
GatewayRaised == call_result # None /\ call_result[1].kind = "raise"

C5_AttemptsBounded ==
    endpoint \in TextEndpoints =>
        /\ requests <= RETRY_COUNT + 1
        /\ requests = Len(outcomes)
        /\ AllFailed(SubSeq(outcomes, 1, Len(outcomes) - 1))
        /\ gpc = "attempt" => (attempt = requests /\ AllFailed(outcomes)
                                /\ call_result = None)
        /\ GatewayReturned =>
              /\ ~FailedAttempt(outcomes[Len(outcomes)])
              /\ call_result[1].value = ExtractText(outcomes[Len(outcomes)].candidates[1])
        /\ GatewayRaised => (AllFailed(outcomes) /\ requests = RETRY_COUNT + 1)

\* C5: one call of call_gemini sends at most RETRY_COUNT + 1 requests; every
\* failed attempt uses up exactly one attempt; the call returns the text of the
\* first successful attempt and sends nothing after it; and the call always ends,
\* returning or raising.
C5_BoundedRetriesAndTermination ==
    /\ []C5_AttemptsBounded
    /\ (gpc = "attempt") ~> (GatewayReturned \/ GatewayRaised)

C5_Witness ==
    /\ endpoint \in TextEndpoints
    /\ GatewayReturned
    /\ requests = 4
    /\ call_result[1].value = "[]"

\* C6: when all RETRY_COUNT + 1 attempts fail, call_gemini raises, and what it
\* raises is the error of the last attempt; it never returns a text then.
C6_RaisesLastError ==
    endpoint \in TextEndpoints =>
        /\ (Len(outcomes) = RETRY_COUNT + 1 /\ AllFailed(outcomes)) =>
              /\ GatewayRaised
              /\ call_result[1].value.at = RETRY_COUNT
              /\ call_result[1].value =
                     try_request(outcomes[RETRY_COUNT + 1], RETRY_COUNT).error
        /\ GatewayRaised => (Len(outcomes) = RETRY_COUNT + 1 /\ AllFailed(outcomes))
        /\ (GatewayRaised /\ response # None) =>
              response[1] = HttpError(call_result[1].value.type)

C6_Witness ==
    /\ endpoint = "radar"
    /\ GatewayRaised
    /\ outcomes[1].kind = "exception"
    /\ outcomes[4].kind = "response"
    /\ outcomes[4].status = 500
    /\ call_result[1].value.type = "RuntimeError: Gemini API"
    /\ response # None

\* the texts of the model that are not JSON documents
NotJsonTexts == {"Sorry, I cannot", "Here it is"}

\* C7: when the gateway returns a text that is not valid JSON to a stage that
\* asked for JSON (scout, analyst, writer), the stage fails with the parse error
\* as HTTP 500: no further request is sent and nothing of the text is returned.
C7_BadJsonFailsAtOnce ==
    (/\ endpoint \in {"scout", "analyst", "writer"}
     /\ GatewayReturned
     /\ call_result[1].value \in NotJsonTexts) =>
        /\ gpc \in {"gateway_done", "responded"}
        /\ requests = Len(outcomes)
        /\ ~FailedAttempt(outcomes[Len(outcomes)])
        /\ AllFailed(SubSeq(outcomes, 1, Len(outcomes) - 1))
        /\ gpc = "responded" => response = Some(HttpError("JSONDecodeError"))
        /\ gpc = "gateway_done" => response = None

C7_Witness ==
    /\ endpoint = "writer"
    /\ gpc = "responded"
    /\ requests = 2
    /\ call_result[1] = Returned("Sorry, I cannot")
    /\ response[1].status = 500

\* an image request that fails: the client raised, the status is not 200, the
\* body cannot be decoded, there is no candidate, or no part carries inlineData
FailedImage(outcome) ==
    \/ outcome.kind = "exception"
    \/ outcome.status # 200
    \/ ~outcome.json_ok
    \/ outcome.candidates = <<>>
    \/ \A i \in 1..Len(outcome.candidates[1]) :
          outcome.candidates[1][i].inlineData = None

\* C8: call_gemini_image sends exactly one request and never retries; on every
\* failure it returns null and does not raise, and the endpoint answers 200 with
\* imageUrl = null.
C8_ImageIsBestEffort ==
    endpoint = "image" =>
        /\ requests = 1
        /\ Len(outcomes) = 1
        /\ sleeps = <<>>
        /\ GatewayReturned
        /\ response # None
        /\ response[1].status = 200
        /\ FailedImage(outcomes[1]) =>
              (call_result[1].value = None /\ response[1].body.imageUrl = None)

C8_Witness ==
    /\ endpoint = "image"
    /\ outcomes[1].kind = "response"
    /\ outcomes[1].status = 500
    /\ response[1] = HttpOk([imageUrl |-> None])

(***************************************************************************)
(* Library functions called on their own (SpecExport, SpecSerrated, ...):  *)
(* the pipeline and the server are off, a function gets an argument `arg`  *)
(* from a bounded set and its return value is kept in `ret`.               *)
(***************************************************************************)
AllOff == PipelineOff /\ GatewayIdle

(***************************************************************************)
(* The JSON form of a script (production.py)                               *)
(***************************************************************************)
\* export_script_json, lines 227-238: the "hook" entry (None is JSON null)
hook_dict(hook) ==
    IF hook # None
    THEN Some([archetype |-> HookArchetype[hook[1].archetype],
               steps |-> [i \in 1..3 |->
                             [name |-> steps(hook[1])[i].name,
                              goal |-> steps(hook[1])[i].goal,
                              text |-> steps(hook[1])[i].text,
                              visual |-> steps(hook[1])[i].visual]]])
    ELSE None

\* lines 247-253
loop_dict(loop) ==
    [context |-> loop.context, deictic_driver |-> loop.deictic_driver,
     evidence |-> loop.evidence, reveal |-> loop.reveal,
     transition |-> loop.transition]

block_dict_NoRehook(block) ==
    [phase |-> SerratedPhase[block.phase],
     timecode_start |-> block.timecode_start,
     timecode_end |-> block.timecode_end,
     intensity_pct |-> block.intensity_pct,
     evidence_loops |-> [i \in 1..Len(block.evidence_loops) |->
                            loop_dict(block.evidence_loops[i])]]

\* lines 240-256
block_dict(block) ==
    [phase |-> SerratedPhase[block.phase],
     timecode_start |-> block.timecode_start,
     timecode_end |-> block.timecode_end,
     intensity_pct |-> block.intensity_pct,
     rehook_text |-> block.rehook_text,
     evidence_loops |-> [i \in 1..Len(block.evidence_loops) |->
                            loop_dict(block.evidence_loops[i])]]

\* lines 260-267
line_dict(line) ==
    [timecode |-> line.timecode, audio_text |-> line.audio_text,
     visual_description |-> line.visual_description,
     visual_type |-> VisualType[line.visual_type],
     sfx |-> line.sfx, music_mood |-> line.music_mood]

\* export_script_json: the document written to the file.  json.dumps followed
\* by json.loads gives back an equal document when it is made of str, int,
\* None, list and dict with str keys, so the file is kept as the document.
export_script_json(script) ==
    [title |-> script.title,
     promise |-> script.promise,
     total_duration_sec |-> script.total_duration_sec,
     hook |-> hook_dict(script.hook),
     blocks |-> [i \in 1..Len(script.blocks) |-> block_dict(script.blocks[i])],
     av_lines |-> [i \in 1..Len(script.av_lines) |-> line_dict(script.av_lines[i])]]

\* import_script_json, lines 283-292 (h is truthy: a dict with two keys)
import_hook(data) ==
    LET h == Get(data, "hook", None)
    IN  IF h = None THEN None
        ELSE LET steps_data == h[1].steps
                 step(sd) == HookStep(sd.name, sd.goal, sd.text, sd.visual)
             IN  Some(Hook(EnumByValue(HookArchetype, h[1].archetype)[1],
                           step(steps_data[1]), step(steps_data[2]),
                           step(steps_data[3])))

\* lines 296-304
import_block(bd) ==
    ScriptBlock(EnumByValue(SerratedPhase, bd.phase)[1],
                bd.timecode_start, bd.timecode_end,
                LET lds == Get(bd, "evidence_loops", <<>>)
                IN  [i \in 1..Len(lds) |->
                        EvidenceLoop(lds[i].context, lds[i].deictic_driver,
                                     lds[i].evidence, lds[i].reveal,
                                     lds[i].transition)],
                Get(bd, "rehook_text", ""),
                Get(bd, "intensity_pct", 50))

\* lines 307-314
import_line(ld) ==
    AVLine(ld.timecode, ld.audio_text, ld.visual_description,
           EnumByValue(VisualType, ld.visual_type)[1],
           Get(ld, "sfx", ""), Get(ld, "music_mood", ""))

\* the Enum lookups of import_script_json that raise ValueError
import_raises(data) ==
    \/ /\ Get(data, "hook", None) # None
       /\ EnumByValue(HookArchetype, data.hook[1].archetype) = None
    \/ \E i \in 1..Len(Get(data, "blocks", <<>>)) :
          EnumByValue(SerratedPhase, data.blocks[i].phase) = None
    \/ \E i \in 1..Len(Get(data, "av_lines", <<>>)) :
          EnumByValue(VisualType, data.av_lines[i].visual_type) = None

import_script_json(data) ==
    IF import_raises(data) THEN Raised("ValueError")
    ELSE LET blocks == Get(data, "blocks", <<>>)
             av_lines == Get(data, "av_lines", <<>>)
         IN  Returned(AVScript(data.title,
                               Get(data, "promise", ""),
                               import_hook(data),
                               [i \in 1..Len(blocks) |-> import_block(blocks[i])],
                               [i \in 1..Len(av_lines) |-> import_line(av_lines[i])],
                               Get(data, "total_duration_sec", 0)))

\* the scripts given to export_script_json
MaxBlocks == 2
MaxLines == 2

SeqsUpTo(S, n) == UNION {[1..k -> S] : k \in 0..n}

SampleLoops ==
    <<EvidenceLoop("claim", "Look at this map", "map", "it moved", "BUT"),
      EvidenceLoop("", "", "", "", "")>>

SampleBlocks ==
    {ScriptBlock("HIGH_START", "00:00", "01:00", <<>>, "", 50),
     ScriptBlock("REHOOK", "03:00", "03:30", <<SampleLoops[1]>>, "But wait", 80),
     ScriptBlock("SYNTHESIS", "10:00", "12:00", SampleLoops, "", 70)}

SampleLines ==
    {AVLine("00:00", "Look.", "report", "DOCUMENT", "whoosh", "tense"),
     AVLine("00:05", "", "", "BROLL", "", "")}

SampleHooks ==
    {None,
     Some(Hook("INVESTIGATOR",
               HookStep("anchor", "lean in", "Look at this report", "report"),
               HookStep("interjection", "stop", "But", ""),
               HookStep("snapback", "gap", "You have a problem", "chart"))),
     Some(Hook("FORTUNE_TELLER",
               HookStep("", "", "", ""), HookStep("", "", "", ""),
               HookStep("", "", "", "")))}

SampleScripts ==
    {AVScript(title, promise, hook, blocks, av_lines, total)
        : title \in {"", "Starbucks"}, promise \in {"", "the promise"},
          hook \in SampleHooks, blocks \in SeqsUpTo(SampleBlocks, MaxBlocks),
          av_lines \in SeqsUpTo(SampleLines, MaxLines), total \in {0, 720}}

InitExport ==
    /\ AllOff
    /\ fpc = "script"
    /\ arg \in SampleScripts
    /\ ret = None

\* export_script_json(script, filepath): ret is the file
Export ==
    /\ fpc = "script"
    /\ ret' = export_script_json(arg)
    /\ fpc' = "exported"
    /\ UNCHANGED <<pvars, added, gvars, arg>>

\* import_script_json(filepath) on that file
Import ==
    /\ fpc = "exported"
    /\ ret' = import_script_json(ret)
    /\ fpc' = "imported"
    /\ UNCHANGED <<pvars, added, gvars, arg>>

NextExport == Export \/ Import

SpecExport == InitExport /\ [][NextExport]_vars

\* C11: importing the file that export_script_json wrote for a script gives a
\* script equal to the original in every field (title, promise, duration, the
\* hook with its archetype and three steps, every block with its evidence
\* loops, every AV line), also for a script with no blocks and no AV lines.
C11_ExportImportRoundTrip ==
    fpc = "imported" =>
        /\ ret = Returned(arg)
        /\ ret.value.hook = arg.hook
        /\ ret.value.blocks = arg.blocks
        /\ ret.value.av_lines = arg.av_lines

C11_Witness ==
    /\ fpc = "imported"
    /\ arg.hook # None
    /\ Len(arg.blocks) = 2
    /\ arg.blocks[1].rehook_text = "But wait"
    /\ Len(arg.blocks[2].evidence_loops) = 2
    /\ Len(arg.av_lines) = 2
    /\ ret.value.blocks[1].rehook_text = "But wait"

(***************************************************************************)
(* Calls of generate_serrated_edge                                         *)
(***************************************************************************)
\* the durations tried
MaxDuration == 60
Durations == 0..MaxDuration

InitSerrated ==
    /\ AllOff
    /\ fpc = "idle"
    /\ arg = None
    /\ ret = None

\* _menu_serrated_edge: asks until the number typed is at least 5, then calls
MenuSerratedEdge(duration) ==
    /\ fpc \in {"idle", "menu_asks_again"}
    /\ IF duration >= 5
       THEN /\ arg' = Some(duration)
            /\ ret' = Some(generate_serrated_edge(duration))
            /\ fpc' = "menu_done"
       ELSE /\ fpc' = "menu_asks_again"
            /\ UNCHANGED <<arg, ret>>
    /\ UNCHANGED <<pvars, added, gvars>>

\* a caller of the library function with any non-negative duration
CallSerratedEdge(duration) ==
    /\ fpc = "idle"
    /\ arg' = Some(duration)
    /\ ret' = Some(generate_serrated_edge(duration))
    /\ fpc' = "call_done"
    /\ UNCHANGED <<pvars, added, gvars>>

NextSerrated ==
    \/ \E duration \in Durations : MenuSerratedEdge(duration)
    \/ \E duration \in Durations : CallSerratedEdge(duration)

SpecSerrated == InitSerrated /\ [][NextSerrated]_vars

\* the minute a "MM:00" timecode denotes (-1 for any other text)
TimecodeMinute(tc) ==
    IF \E m \in 0..(MaxDuration + 5) : Timecode(m) = tc
    THEN CHOOSE m \in 0..(MaxDuration + 5) : Timecode(m) = tc
    ELSE -1

SerratedDone == fpc \in {"menu_done", "call_done"}

\* C12: for every duration of at least 5 minutes the blocks are contiguous and
\* non-overlapping (each starts at the timecode where the previous one ends and
\* none ends before it starts), the first starts at 00:00 with phase high_start,
\* and the last has phase synthesis and ends at the duration.
C12_BlocksContiguous ==
    (SerratedDone /\ arg[1] >= 5) =>
        LET blocks == ret[1]
            n == Len(blocks)
        IN  /\ n >= 3
            /\ blocks[1].timecode_start = "00:00"
            /\ blocks[1].phase = "HIGH_START"
            /\ \A i \in 1..(n - 1) :
                  blocks[i + 1].timecode_start = blocks[i].timecode_end
            /\ \A i \in 1..n :
                  /\ TimecodeMinute(blocks[i].timecode_start) >= 0
                  /\ TimecodeMinute(blocks[i].timecode_start)
                         <= TimecodeMinute(blocks[i].timecode_end)
            /\ blocks[n].phase = "SYNTHESIS"
            /\ blocks[n].timecode_end = Timecode(arg[1])
            /\ TimecodeMinute(blocks[n].timecode_end) = arg[1]

C12_Witness ==
    /\ fpc = "menu_done"
    /\ arg = Some(12)
    /\ Len(ret[1]) = 6
    /\ ret[1][3].phase = "INVESTIGATION"
    /\ ret[1][4].phase = "REHOOK"
    /\ ret[1][6].timecode_start = "10:00"
    /\ ret[1][6].timecode_end = "12:00"

\* C13: for every non-negative duration, also below 5, generate_serrated_edge
\* returns and every block has timecode_start not later than timecode_end.
C13_RangesWellFormed ==
    SerratedDone =>
        \A i \in 1..Len(ret[1]) :
            /\ TimecodeMinute(ret[1][i].timecode_start) >= 0
            /\ TimecodeMinute(ret[1][i].timecode_start)
                   <= TimecodeMinute(ret[1][i].timecode_end)

(***************************************************************************)
(* The hook validator (hook_engine.py).  Texts are ASCII strings; of the    *)
(* two marker lists the model keeps the ASCII entries: the Cyrillic ones   *)
(* occur in no ASCII text, and the Cyrillic half of the regular            *)
(* expression's letter class matches no ASCII character.                   *)
(***************************************************************************)
UpperLetters == <<"A", "B", "C", "D", "E", "F", "G", "H", "I", "J", "K", "L", "M",
                  "N", "O", "P", "Q", "R", "S", "T", "U", "V", "W", "X", "Y", "Z">>
LowerLetters == <<"a", "b", "c", "d", "e", "f", "g", "h", "i", "j", "k", "l", "m",
                  "n", "o", "p", "q", "r", "s", "t", "u", "v", "w", "x", "y", "z">>

IsUpper(c) == \E i \in 1..26 : UpperLetters[i] = c
IsLetter(c) == IsUpper(c) \/ \E i \in 1..26 : LowerLetters[i] = c

\* str.lower(), character by character (the text is split in halves)
RECURSIVE lower(_)
lower(text) ==
    IF Len(text) = 0 THEN ""
    ELSE IF Len(text) = 1
    THEN (IF IsUpper(text)
          THEN LowerLetters[CHOOSE i \in 1..26 : UpperLetters[i] = text]
          ELSE text)
    ELSE LET half == Len(text) \div 2
         IN  lower(SubSeq(text, 1, half)) \o lower(SubSeq(text, half + 1, Len(text)))

\* str.strip(), the whitespace of the model's texts being the space
RECURSIVE lstrip(_)
lstrip(text) ==
    IF text # "" /\ Head(text) = " " THEN lstrip(Tail(text)) ELSE text

RECURSIVE rstrip(_)
rstrip(text) ==
    IF text # "" /\ SubSeq(text, Len(text), Len(text)) = " "
    THEN rstrip(SubSeq(text, 1, Len(text) - 1))
    ELSE text

str_strip(text) == rstrip(lstrip(text))

\* re.findall(r"[a-zA-Z]+", text): the maximal runs of letters, in order
RECURSIVE letter_runs(_, _)
letter_runs(text, from) ==
    IF \A k \in from..Len(text) : ~IsLetter(CharAt(text, k)) THEN <<>>
    ELSE LET first == CHOOSE k \in from..Len(text) :
                          /\ IsLetter(CharAt(text, k))
                          /\ \A l \in from..(k - 1) : ~IsLetter(CharAt(text, l))
             last == CHOOSE k \in first..Len(text) :
                         /\ \A l \in first..k : IsLetter(CharAt(text, l))
                         /\ (k = Len(text) \/ ~IsLetter(CharAt(text, k + 1)))
         IN  <<SubSeq(text, first, last)>> \o letter_runs(text, last + 1)

findall_words(text) == letter_runs(text, 1)

\* separator.join(parts)
RECURSIVE join(_, _)
join(separator, parts) ==
    IF parts = <<>> THEN ""
    ELSE IF Len(parts) = 1 THEN parts[1]
    ELSE parts[1] \o separator \o join(separator, Tail(parts))

\* the members of HookError, in the order validate_hook reports them
HookError == <<"DELAY", "CONFUSION", "IRRELEVANCE", "DISINTEREST">>

HookValidationResult(error, passed, detail) ==
    [error |-> error, passed |-> passed, detail |-> detail]

\* line 67
all_text(hook) == join(" ", [i \in 1..3 |-> steps(hook)[i].text])

\* lines 54-64
check_delay(hook) ==
    LET anchor_step == hook.step1_anchor
        has_visual == anchor_step.visual # "" /\ str_strip(anchor_step.visual) # ""
    IN  HookValidationResult("DELAY", has_visual,
            IF has_visual THEN "anchor visual given in step 1"
            ELSE "ERROR: no anchor visual in step 1")

is_long_Over8(w) == Len(w) > 8

\* line 68: len(w) > 15
is_long(w) == Len(w) > 15

\* lines 67-82 with the visual looked for in the first step only
check_confusion_AnchorOnly(hook) ==
    LET long_words == SelectSeq(findall_words(all_text(hook)), is_long)
        visuals_present == str_strip(steps(hook)[1].visual) # ""
        confusion_ok == Len(long_words) = 0 /\ visuals_present
    IN  HookValidationResult("CONFUSION", confusion_ok,
            IF confusion_ok THEN "simple text, a visual for every step"
            ELSE "WARNING: long words ("
                 \o join(", ", SubSeq(long_words, 1, Min(5, Len(long_words))))
                 \o ") or a visual is missing")

\* lines 67-82
check_confusion(hook) ==
    LET long_words == SelectSeq(findall_words(all_text(hook)), is_long)
        visuals_present == \A i \in 1..3 : str_strip(steps(hook)[i].visual) # ""
        confusion_ok == Len(long_words) = 0 /\ visuals_present
    IN  HookValidationResult("CONFUSION", confusion_ok,
            IF confusion_ok THEN "simple text, a visual for every step"
            ELSE "WARNING: long words ("
                 \o join(", ", SubSeq(long_words, 1, Min(5, Len(long_words))))
                 \o ") or a visual is missing")

\* lines 85-86 and 100-104 (ASCII entries)
audience_markers == <<"you", "your", "look">>
conflict_markers == <<"but", "however", "secret", "hidden", "shocking", "danger">>

\* lines 87-97
check_irrelevance(hook) ==
    LET text_lower == lower(all_text(hook))
        has_audience == \E i \in 1..Len(audience_markers) :
                            Contains(text_lower, audience_markers[i])
    IN  HookValidationResult("IRRELEVANCE", has_audience,
            IF has_audience THEN "the viewer is addressed"
            ELSE "ERROR: the viewer is not addressed")

\* lines 105-115
check_disinterest(hook) ==
    LET text_lower == lower(all_text(hook))
        snapback_text == lower(hook.step3_snapback.text)
        has_conflict == \E i \in 1..Len(conflict_markers) :
                            \/ Contains(snapback_text, conflict_markers[i])
                            \/ Contains(text_lower, conflict_markers[i])
    IN  HookValidationResult("DISINTEREST", has_conflict,
            IF has_conflict THEN "conflict / high stakes found"
            ELSE "WARNING: the stakes do not look high enough")

RECURSIVE UpToFirstFailure(_)
UpToFirstFailure(results) ==
    IF results = <<>> THEN <<>>
    ELSE IF ~Head(results).passed THEN <<Head(results)>>
    ELSE <<Head(results)>> \o UpToFirstFailure(Tail(results))

validate_hook_StopsAtFailure(hook) ==
    UpToFirstFailure(<<check_delay(hook), check_confusion(hook),
                       check_irrelevance(hook), check_disinterest(hook)>>)

validate_hook(hook) ==
    <<check_delay(hook), check_confusion(hook), check_irrelevance(hook),
      check_disinterest(hook)>>

\* the hooks given to validate_hook
AnchorTexts == {"Look at this financial report", "The report", ""}
AnchorVisuals == {"SEC filing scan", "", "  "}
InterjectionTexts ==
    {"But wait.", "This is not about coffee", "Incomprehensibilities everywhere",
     "A state-of-the-art-technology"}
InterjectionVisuals == {"zoom", ""}
SnapbackTexts ==
    {"This is a problem", "You lent them money. However...", "the hidden SECRET", ""}
SnapbackVisuals == {"infographic", " "}

ValidatedHooks ==
    {Hook("CONTRARIAN",
          HookStep("anchor", "lean in", t1, v1),
          HookStep("interjection", "scroll stop", t2, v2),
          HookStep("snapback", "curiosity gap", t3, v3))
        : t1 \in AnchorTexts, v1 \in AnchorVisuals, t2 \in InterjectionTexts,
          v2 \in InterjectionVisuals, t3 \in SnapbackTexts, v3 \in SnapbackVisuals}

InitHook ==
    /\ AllOff
    /\ fpc = "hook"
    /\ arg \in ValidatedHooks
    /\ ret = None

ValidateHook ==
    /\ fpc = "hook"
    /\ ret' = validate_hook(arg)
    /\ fpc' = "validated"
    /\ UNCHANGED <<pvars, added, gvars, arg>>

NextHook == ValidateHook

SpecHook == InitHook /\ [][NextHook]_vars

AllPassed == \A i \in 1..Len(ret) : ret[i].passed

\* no run of more than 15 characters without a space
NoWordOver15(text) ==
    \A i \in 1..(Len(text) - 15) :
        \E j \in i..(i + 15) : CharAt(text, j) = " "

\* text with a character other than the space
NotBlank(text) == \E i \in 1..Len(text) : CharAt(text, i) # " "

HasMarker(text, markers) ==
    \E i \in 1..Len(markers) : \E u \in {text, lower(text)} : Contains(u, markers[i])

C14_FourResults ==
    fpc = "validated" =>
        /\ Len(ret) = 4
        /\ \A i \in 1..4 : ret[i].error = HookError[i]
        /\ \A i \in 1..4 : ret[i].passed \in BOOLEAN
        /\ state = PipelineState(FALSE)

\* C14: for every hook, empty texts and visuals included, validate_hook returns
\* exactly four results in the order delay, confusion, irrelevance,
\* disinterest, and the call changes neither the hook nor the pipeline state.
C14_FourResultsNothingChanged ==
    /\ []C14_FourResults
    /\ [][fpc' = "validated" => (arg' = arg /\ UNCHANGED pvars)]_vars

C14_Witness ==
    /\ fpc = "validated"
    /\ arg.step1_anchor.text = ""
    /\ arg.step1_anchor.visual = ""
    /\ arg.step3_snapback.text = ""
    /\ Len(ret) = 4
    /\ ~ret[1].passed
    /\ ~ret[4].passed

HookTextsOk ==
    /\ \A i \in 1..3 : NoWordOver15(steps(arg)[i].text)
    /\ HasMarker(all_text(arg), audience_markers)
    /\ HasMarker(arg.step3_snapback.text, conflict_markers)

\* C15 as stated: all four checks pass when the anchor step has a non-empty
\* visual, no word of the step texts is longer than 15 characters, the text has
\* a second-person marker and the snapback text has a conflict keyword.
C15_PassWithAnchorVisual ==
    (fpc = "validated" /\ arg.step1_anchor.visual # "" /\ HookTextsOk) => AllPassed

\* C15, amended: all four checks pass when every one of the three steps has a
\* visual that is not blank, no word of the step texts is longer than 15
\* characters, the text has a second-person marker and the snapback text has a
\* conflict keyword.
C15_PassWithEveryVisual ==
    (/\ fpc = "validated"
     /\ \A i \in 1..3 : NotBlank(steps(arg)[i].visual)
     /\ HookTextsOk) => AllPassed

C15_Witness ==
    /\ fpc = "validated"
    /\ arg.step1_anchor.text = "Look at this financial report"
    /\ arg.step1_anchor.visual = "SEC filing scan"
    /\ arg.step2_interjection.visual = "zoom"
    /\ arg.step3_snapback.text = "the hidden SECRET"
    /\ arg.step3_snapback.visual = "infographic"
    /\ NoWordOver15(arg.step2_interjection.text)
    /\ AllPassed

\* C16: a hook whose anchor text is "Look at this financial report", whose step
\* texts have no word longer than 15 characters and whose snapback text contains
\* "problem" gets all four checks passing (stated for the hooks that have a
\* visual in every step, which the delay and confusion checks ask for).
C16_ProblemSnapbackPasses ==
    (/\ fpc = "validated"
     /\ arg.step1_anchor.text = "Look at this financial report"
     /\ \A i \in 1..3 : NoWordOver15(steps(arg)[i].text)
     /\ \A i \in 1..3 : NotBlank(steps(arg)[i].visual)
     /\ Contains(arg.step3_snapback.text, "problem")) => AllPassed

(***************************************************************************)
(* The Staccato analyzer (analyzer.py).  The two floats of the report are   *)
(* kept as integers: avg_words_per_sentence in tenths, short_sentences_pct *)
(* in hundredths.                                                          *)
(***************************************************************************)
IsTerminator(c) == c \in {".", "!", "?"}

\* re.split(r"[.!?]+", text), lines 45-46: the maximal runs of characters other
\* than . ! ? (the empty strings that re.split also returns are dropped by the
\* filter of line 46)
RECURSIVE split_sentences(_, _)
split_sentences(text, from) ==
    IF \A k \in from..Len(text) : IsTerminator(CharAt(text, k)) THEN <<>>
    ELSE LET first == CHOOSE k \in from..Len(text) :
                             /\ ~IsTerminator(CharAt(text, k))
                             /\ \A l \in from..(k - 1) : IsTerminator(CharAt(text, l))
                 last == CHOOSE k \in first..Len(text) :
                             /\ \A l \in first..k : ~IsTerminator(CharAt(text, l))
                             /\ (k = Len(text) \/ IsTerminator(CharAt(text, k + 1)))
         IN  <<SubSeq(text, first, last)>> \o split_sentences(text, last + 1)

\* line 46: [s.strip() for s in sentences if s.strip()]
stripped_sentences(text) ==
    LET pieces == split_sentences(text, 1)
        kept(s) == str_strip(s) # ""
        nonblank == SelectSeq(pieces, kept)
    IN  [i \in 1..Len(nonblank) |-> str_strip(nonblank[i])]

\* round(num / den, digits) as an integer number of 10^-digits (scale = 10^digits):
\* to the nearest, a tie to the even one.  The ties of the quotients met here
\* (fewer than 20 sentences) are exact binary fractions, which Python rounds so.
RoundHalfEven(num, den, scale) ==
    LET q == (num * scale) \div den
        r == (num * scale) % den
    IN  IF 2 * r < den THEN q
        ELSE IF 2 * r > den THEN q + 1
        ELSE IF q % 2 = 0 THEN q ELSE q + 1

StaccatoReport(total_sentences, avg_words_per_sentence, short_sentences_pct, long_sentences, verdict) ==
    [total_sentences |-> total_sentences,
     avg_words_per_sentence |-> avg_words_per_sentence,
     short_sentences_pct |-> short_sentences_pct,
     long_sentences |-> long_sentences,
     verdict |-> verdict]

is_short_Under8(c) == c < 8

\* line 59: c <= 8
is_short(c) == c <= 8

avg_ok_Under8(total, n) == total < 8 * n

\* line 63: avg <= 8, with avg = total / n
avg_ok(total, n) == total <= 8 * n

\* lines 63-75; short_pct >= 0.6 is short / n >= 6 / 10, avg <= 12 is total <= 12 n
staccato_verdict(total, short, n) ==
    IF avg_ok(total, n) /\ 10 * short >= 6 * n THEN "compliant"
    ELSE IF total <= 12 * n THEN "borderline"
    ELSE "too long"

analyze_staccato(text) ==
    LET sentences == stripped_sentences(text)
        n == Len(sentences)
        word_counts == [i \in 1..n |-> word_count(sentences[i])]
        total == Sum(word_counts)
        short == Cardinality({i \in 1..n : is_short(word_counts[i])})
        is_long_sentence(s) == word_count(s) > 20
        long == SelectSeq(sentences, is_long_sentence)
    IN  IF n = 0
        THEN StaccatoReport(0, 0, 0, <<>>, "empty")
        ELSE StaccatoReport(n,
                            RoundHalfEven(total, n, 10),
                            RoundHalfEven(short, n, 100),
                            SubSeq(long, 1, Min(5, Len(long))),
                            staccato_verdict(total, short, n))

\* the texts analysed: sentences of given numbers of words (0 is a blank
\* sentence), each closed by `term`, the last one closed or left open
MaxSentences == 3
MaxAppends == 2
WordCounts == {0, 1, 8, 9, 21}

RECURSIVE Words(_)
Words(c) == IF c = 0 THEN "" ELSE IF c = 1 THEN "ab" ELSE "ab " \o Words(c - 1)

RECURSIVE TextOf(_, _, _)
TextOf(counts, term, closed) ==
    IF counts = <<>> THEN ""
    ELSE IF Len(counts) = 1 THEN Words(counts[1]) \o (IF closed THEN term ELSE "")
    ELSE Words(counts[1]) \o term \o " " \o TextOf(Tail(counts), term, closed)

StaccatoInput(counts, term, closed) ==
    [text |-> TextOf(counts, term, closed), counts |-> counts]

ManyLong == [i \in 1..7 |-> 21]

StaccatoInputs ==
    {StaccatoInput(counts, ".", closed)
        : counts \in SeqsUpTo(WordCounts, MaxSentences), closed \in BOOLEAN}
    \cup {StaccatoInput(counts, term, TRUE)
            : counts \in {ManyLong, <<1, 1, 1, 9, 9>>, <<1, 1, 9, 9, 9>>, <<12>>,
                          <<13>>, <<12, 13>>, <<8, 8, 9>>, <<9, 0, 8>>},
              term \in {"!", "?!", "..."}}

\* the text followed by one more sentence of c words: a sentence break first,
\* where the text has an open last sentence
append_sentence(input, c) ==
    LET text == input.text
        open == /\ str_strip(text) # ""
                /\ ~IsTerminator(CharAt(rstrip(text), Len(rstrip(text))))
    IN  [text |-> text \o (IF open THEN ". " ELSE " ") \o Words(c) \o ".",
         counts |-> Append(input.counts, c)]

InitStaccato ==
    /\ AllOff
    /\ fpc = "text"
    /\ arg \in StaccatoInputs
    /\ ret = <<>>

\* analyze_staccato(text); ret is the list of the reports so far
AnalyzeStaccato ==
    /\ fpc = "text"
    /\ ret' = <<analyze_staccato(arg.text)>>
    /\ fpc' = "analyzed"
    /\ UNCHANGED <<pvars, added, gvars, arg>>

\* the caller appends a sentence of c <= 8 words and analyses the longer text
AppendShortSentence(c) ==
    /\ fpc = "analyzed"
    /\ Len(ret) <= MaxAppends
    /\ c \in 1..8
    /\ arg' = append_sentence(arg, c)
    /\ ret' = Append(ret, analyze_staccato(arg'.text))
    /\ UNCHANGED <<pvars, added, gvars, fpc>>

NextStaccato ==
    \/ AnalyzeStaccato
    \/ \E c \in {1, 8} : AppendShortSentence(c)

SpecStaccato == InitStaccato /\ [][NextStaccato]_vars

\* the numbers of words of the non-empty sentences written into the text
IsPositive(c) == c > 0
WrittenCounts == SelectSeq(arg.counts, IsPositive)
NumWritten == Len(WrittenCounts)
NumShortWritten == Cardinality({i \in 1..NumWritten : WrittenCounts[i] <= 8})
LastReport == ret[Len(ret)]

\* C17: for a text with at least one non-empty sentence the verdict is
\* "compliant" exactly when the mean words per sentence is <= 8 and the fraction
\* of sentences of <= 8 words is >= 0.6; otherwise "borderline" exactly when the
\* mean is <= 12; otherwise "too long".  The list of sentences of more than 20
\* words never has more than 5 entries.
C17_StaccatoVerdict ==
    fpc = "analyzed" =>
        LET mean_le_8 == Sum(WrittenCounts) <= 8 * NumWritten
            mean_le_12 == Sum(WrittenCounts) <= 12 * NumWritten
            fraction_ge_06 == 10 * NumShortWritten >= 6 * NumWritten
        IN  /\ Len(LastReport.long_sentences) <= 5
            /\ NumWritten > 0 =>
                  /\ LastReport.total_sentences = NumWritten
                  /\ (LastReport.verdict = "compliant") <=> (mean_le_8 /\ fraction_ge_06)
                  /\ (LastReport.verdict = "borderline")
                        <=> (~(mean_le_8 /\ fraction_ge_06) /\ mean_le_12)
                  /\ (LastReport.verdict = "too long") <=> ~mean_le_12

C17_Witness ==
    /\ fpc = "analyzed"
    /\ arg.counts = <<1, 9, 9>>
    /\ Len(ret) = 1
    /\ ret[1].verdict = "borderline"
    /\ ret[1].short_sentences_pct = 33
    /\ ret[1].avg_words_per_sentence = 63

\* C18: appending sentences of at most 8 words each never makes the reported
\* short-sentence fraction smaller than it was for the original text.
C18_ShortFractionMonotonic ==
    fpc = "analyzed" =>
        \A i \in 1..Len(ret) : \A j \in i..Len(ret) :
            ret[i].short_sentences_pct <= ret[j].short_sentences_pct

C18_Witness ==
    /\ fpc = "analyzed"
    /\ Len(ret) = 3
    /\ ret[1].short_sentences_pct = 33
    /\ ret[2].short_sentences_pct = 50
    /\ ret[3].short_sentences_pct = 60

(***************************************************************************)
(* The But/Therefore analyzer (structure.py).  Texts are ASCII strings: a   *)
(* Russian word is written in Latin letters after an underscore ("_zatem"),*)
(* in the patterns and in the texts alike, so that it stays one word (the  *)
(* underscore is a word character, as a Cyrillic letter is) and is no      *)
(* English word.  A pattern \bw1\s+w2\b is the pair <<w1, w2>>, a pattern  *)
(* \bw\b the pair <<w, "">>.                                               *)
(***************************************************************************)
\* lines 194-197
_AND_THEN_PATTERNS_RU ==
    <<<<"_i", "_zatem">>, <<"_i", "_potom">>, <<"_posle", "_etogo">>,
      <<"_a", "_potom">>, <<"_posle", "_chego">>, <<"_zatem", "">>>>

\* lines 203-207
_BUT_THEREFORE_PATTERNS_RU ==
    <<<<"_no", "">>, <<"_odnako", "">>, <<"_vprochem", "">>,
      <<"_sledovatelno", "">>, <<"_poetomu", "">>, <<"_v", "_rezultate">>,
      <<"_iz-_za", "_etogo">>, <<"_takim", "_obrazom">>>>

_AND_THEN_PATTERNS_EN == <<<<"and", "then">>, <<"after", "that">>, <<"next", "">>>>

_BUT_THEREFORE_PATTERNS_EN_NoTherefore ==
    <<<<"but", "">>, <<"however", "">>, <<"consequently", "">>>>

_BUT_THEREFORE_PATTERNS_EN ==
    <<<<"but", "">>, <<"however", "">>, <<"therefore", "">>, <<"consequently", "">>>>

\* \w on ASCII: a letter, a digit or the underscore
IsWordChar(c) == IsLetter(c) \/ c \in {"0", "1", "2", "3", "4", "5", "6", "7", "8", "9", "_"}

\* \b before position i / after position i
BoundaryBefore(text, i) == i = 1 \/ ~IsWordChar(CharAt(text, i - 1))
BoundaryAfter(text, i) == i = Len(text) \/ ~IsWordChar(CharAt(text, i + 1))

WordAt(text, i, w) == i + Len(w) - 1 <= Len(text) /\ SubSeq(text, i, i + Len(w) - 1) = w

\* the position where a match of the pattern that starts at i ends, 0 if none
match_end(text, i, pattern) ==
    LET w1 == pattern[1]
        w2 == pattern[2]
        after1 == i + Len(w1)
    IN  IF ~(WordAt(text, i, w1) /\ BoundaryBefore(text, i)) THEN 0
        ELSE IF w2 = ""
        THEN (IF BoundaryAfter(text, after1 - 1) THEN after1 - 1 ELSE 0)
        ELSE LET starts == {j \in (after1 + 1)..Len(text) :
                               /\ \A k \in after1..(j - 1) : CharAt(text, k) = " "
                               /\ WordAt(text, j, w2)
                               /\ BoundaryAfter(text, j + Len(w2) - 1)}
             IN  IF starts = {} THEN 0
                 ELSE (CHOOSE j \in starts : TRUE) + Len(w2) - 1

\* [m.group() for m in re.finditer(pattern, text)]: the matches from left to
\* right, each search going on where the last match ended
RECURSIVE finditer(_, _, _)
finditer(pattern, text, from) ==
    LET found == {i \in from..Len(text) : match_end(text, i, pattern) > 0}
    IN  IF found = {} THEN <<>>
        ELSE LET first == CHOOSE i \in found : \A k \in found : i <= k
                 last == match_end(text, first, pattern)
             IN  <<SubSeq(text, first, last)>> \o finditer(pattern, text, last + 1)

\* lines 223-226 and 228-231: the matches of all patterns, pattern by pattern
RECURSIVE all_matches(_, _)
all_matches(patterns, text) ==
    IF patterns = <<>> THEN <<>>
    ELSE finditer(Head(patterns), text, 1) \o all_matches(Tail(patterns), text)

\* but_therefore_count / total as a fraction
Ratio(num, den) == [num |-> num, den |-> den]

_but_therefore_verdict_RatioFirst(ratio, and_then_count) ==
    IF 10 * ratio.num >= 8 * ratio.den THEN "excellent"
    ELSE IF and_then_count = 0 THEN "clean"
    ELSE IF 10 * ratio.num >= 5 * ratio.den THEN "acceptable"
    ELSE "too much sequencing"

\* lines 252-262; ratio >= 0.8 is num / den >= 8 / 10
_but_therefore_verdict(ratio, and_then_count) ==
    IF and_then_count = 0 THEN "clean"
    ELSE IF 10 * ratio.num >= 8 * ratio.den THEN "excellent"
    ELSE IF 10 * ratio.num >= 5 * ratio.den THEN "acceptable"
    ELSE "too much sequencing"

analyze_but_therefore(text) ==
    LET text_lower == lower(text)
        and_then_matches ==
            all_matches(_AND_THEN_PATTERNS_RU \o _AND_THEN_PATTERNS_EN, text_lower)
        but_therefore_matches ==
            all_matches(_BUT_THEREFORE_PATTERNS_RU \o _BUT_THEREFORE_PATTERNS_EN,
                        text_lower)
        and_then_count == Len(and_then_matches)
        but_therefore_count == Len(but_therefore_matches)
        total == and_then_count + but_therefore_count
        ratio == IF total = 0 THEN Ratio(0, 1) ELSE Ratio(but_therefore_count, total)
    IN  [and_then_count |-> and_then_count,
         and_then_examples |-> SubSeq(and_then_matches, 1, Min(10, and_then_count)),
         but_therefore_count |-> but_therefore_count,
         but_therefore_examples |->
             SubSeq(but_therefore_matches, 1, Min(10, but_therefore_count)),
         ratio |-> ratio,
         verdict |-> _but_therefore_verdict(ratio, and_then_count)]

\* the texts analysed: phrases joined by ". " (kind: what the phrase is to the
\* analyzer), each with the number of matches of either kind in it
MaxPhrases == 3

Phrase(words, kind) == [words |-> words, kind |-> kind]

Phrases ==
    {Phrase("and then we go", "and_then"), Phrase("After  that", "and_then"),
     Phrase("NEXT", "and_then"), Phrase("but it works", "causal"),
     Phrase("However", "causal"), Phrase("Therefore we act", "causal"),
     Phrase("butter and thence nextdoor", "none"), Phrase("we act", "none")}

RECURSIVE JoinPhrases(_)
JoinPhrases(phrases) ==
    IF phrases = <<>> THEN ""
    ELSE IF Len(phrases) = 1 THEN phrases[1].words \o "."
    ELSE phrases[1].words \o ". " \o JoinPhrases(Tail(phrases))

CountKind(phrases, kind) == Cardinality({i \in 1..Len(phrases) : phrases[i].kind = kind})

ButThereforeInput(phrases) ==
    [text |-> JoinPhrases(phrases),
     and_then |-> CountKind(phrases, "and_then"),
     causal |-> CountKind(phrases, "causal")]

NarrationText == "Look. This is big. This is bad. But it works. Therefore we must act."

Sequencing == Phrase("and then we go", "and_then")
Causal == Phrase("but it works", "causal")

\* Russian narration: "we came and then left", "then we left; but it was
\* late; therefore...", "because of this all changed; as a result...; and
\* after that...", "a  potom" with no pattern word in it
RussianInputs ==
    {[text |-> "_My _prishli _i _zatem _ushli.", and_then |-> 2, causal |-> 0],
     [text |-> "_Zatem _my _ushli. _No _eto _bylo _pozdno. _Poetomu _my _zdes.",
      and_then |-> 1, causal |-> 2],
     [text |-> "_Iz-_za _etogo _vse _izmenilos. _V  _rezultate _my _ushli, _a _posle _etogo _tishina.",
      and_then |-> 1, causal |-> 2],
     [text |-> "_Nota _zatemno, a potom no", and_then |-> 0, causal |-> 0]}

ButThereforeInputs ==
    {ButThereforeInput(phrases) : phrases \in SeqsUpTo(Phrases, MaxPhrases)}
    \cup {ButThereforeInput(phrases)
            : phrases \in {<<Sequencing, Causal, Causal, Causal, Causal>>,
                           <<Sequencing, Causal, Causal, Causal>>,
                           <<Causal, Sequencing, Sequencing, Causal>>,
                           <<Sequencing, Sequencing, Causal, Sequencing, Sequencing>>}}
    \cup {[text |-> NarrationText, and_then |-> 0, causal |-> 2]}
    \cup RussianInputs

InitButTherefore ==
    /\ AllOff
    /\ fpc = "narration"
    /\ arg \in ButThereforeInputs
    /\ ret = None

AnalyzeButTherefore ==
    /\ fpc = "narration"
    /\ ret' = analyze_but_therefore(arg.text)
    /\ fpc' = "analyzed"
    /\ UNCHANGED <<pvars, added, gvars, arg>>

NextButTherefore == AnalyzeButTherefore

SpecButTherefore == InitButTherefore /\ [][NextButTherefore]_vars

\* C19: the verdict is "clean" for every text with zero and-then matches,
\* whatever the number of causal matches; with at least one and-then match it is
\* "excellent" if causal / (causal + and-then) >= 0.8, "acceptable" if it is
\* >= 0.5, "too much sequencing" otherwise; the ratio is 0 when both counts are 0.
C19_ButThereforeVerdict ==
    fpc = "analyzed" =>
        LET a == arg.and_then
            c == arg.causal
        IN  /\ ret.and_then_count = a
            /\ ret.but_therefore_count = c
            /\ a = 0 => ret.verdict = "clean"
            /\ (a > 0 /\ 10 * c >= 8 * (a + c)) => ret.verdict = "excellent"
            /\ (a > 0 /\ 10 * c < 8 * (a + c) /\ 10 * c >= 5 * (a + c))
                  => ret.verdict = "acceptable"
            /\ (a > 0 /\ 10 * c < 5 * (a + c)) => ret.verdict = "too much sequencing"
            /\ (a = 0 /\ c = 0) => ret.ratio.num = 0
            /\ (a + c > 0) => ret.ratio.num * (a + c) = c * ret.ratio.den

C19_Witness ==
    /\ fpc = "analyzed"
    /\ arg.and_then = 0
    /\ arg.causal = 3
    /\ ret.but_therefore_count = 3
    /\ ret.verdict = "clean"

\* C20 as stated: for the narration text the analysis reports zero and-then
\* matches, at least 2 causal matches, ratio 1.0 and the verdict "excellent".
C20_NarrationExcellent ==
    (fpc = "analyzed" /\ arg.text = NarrationText) =>
        /\ ret.and_then_count = 0
        /\ ret.but_therefore_count >= 2
        /\ ret.ratio.num = ret.ratio.den
        /\ ret.verdict = "excellent"

\* C20, amended: for the narration text the analysis reports zero and-then
\* matches, at least 2 causal matches ("but", "therefore"), ratio 1.0 and, as
\* there is no and-then match, the verdict "clean".
C20_NarrationClean ==
    (fpc = "analyzed" /\ arg.text = NarrationText) =>
        /\ ret.and_then_count = 0
        /\ ret.but_therefore_count >= 2
        /\ ret.but_therefore_examples = <<"but", "therefore">>
        /\ ret.ratio.num = ret.ratio.den
        /\ ret.verdict = "clean"

C20_Witness ==
    /\ fpc = "analyzed"
    /\ arg.text = NarrationText
    /\ ret.but_therefore_count = 2
    /\ ret.verdict = "clean"

(***************************************************************************)
(* The backoff and the log lines of call_gemini (src/main.py 351-399)      *)
(***************************************************************************)
\* the failed attempts that a retry follows: all but attempt RETRY_COUNT
RetriedFailures == IF GatewayRaised THEN RETRY_COUNT ELSE
                   IF GatewayReturned THEN Len(outcomes) - 1 ELSE Len(outcomes)

\* C21: the wait before the k-th retry is RETRY_BASE_DELAY * 2^(k-1) seconds
\* (1, 2, 4 by default); there is one sleep per failed attempt that a retry
\* follows, none after a successful attempt and none after the final failed one.
C21_BackoffDoubles ==
    endpoint \in TextEndpoints =>
        /\ Len(sleeps) <= RETRY_COUNT
        /\ \A k \in 1..Len(sleeps) : sleeps[k] = RETRY_BASE_DELAY * (2 ^ (k - 1))
        /\ IsPrefix(sleeps, <<1, 2, 4>>)
        /\ Len(sleeps) = RetriedFailures
        /\ GatewayReturned => Len(sleeps) = Len(outcomes) - 1
        /\ GatewayRaised => (Len(sleeps) = RETRY_COUNT /\ Len(outcomes) = RETRY_COUNT + 1)

C21_Witness ==
    /\ endpoint \in TextEndpoints
    /\ GatewayRaised
    /\ sleeps = <<1, 2, 4>>

\* the lines that call_gemini itself gives to log(), without the endpoint's own
IsCallLine(l) == l.line \in {"request", "ok", "error", "retrying", "exhausted"}
CallLines == SelectSeq(glog, IsCallLine)

IsRequestLine(l) == l.line = "request"
IsOkLine(l) == l.line = "ok"
\* the three lines logged under the ERROR tag (lines 393, 394, 397)
IsErrorTagLine(l) == l.line \in {"error", "retrying", "exhausted"}
IsErrorLine(l) == l.line = "error"
IsRetryLine(l) == l.line = "retrying"
IsExhaustedLine(l) == l.line = "exhausted"

NumFailed == Cardinality({i \in 1..Len(outcomes) : FailedAttempt(outcomes[i])})

\* C22 as stated: one request line per attempt, each with the agent name, the
\* model identifier and the attempt number; one success line if an attempt
\* succeeds; one error line per failed attempt, each with the wait time.
C22_OneLinePerAttempt ==
    endpoint \in TextEndpoints =>
        /\ Len(SelectSeq(CallLines, IsRequestLine)) = Len(outcomes)
        /\ \A i \in 1..Len(CallLines) :
              IsRequestLine(CallLines[i]) =>
                  /\ CallLines[i].agent = AgentName(endpoint)
                  /\ CallLines[i].model = DEFAULT_MODEL
                  /\ CallLines[i].attempt_no # None
        /\ Len(SelectSeq(CallLines, IsOkLine)) = (IF GatewayReturned THEN 1 ELSE 0)
        /\ Len(SelectSeq(CallLines, IsErrorTagLine)) = NumFailed
        /\ \A i \in 1..Len(CallLines) :
              IsErrorTagLine(CallLines[i]) => IsRetryLine(CallLines[i])

\* C22, amended: one request line per attempt with the agent name and the model
\* identifier, and from the second attempt on the attempt number; one success
\* line, the last of the call, if an attempt succeeds; for each failed attempt
\* that a retry follows two error lines, the error and then the wait before the
\* retry; for the final failed attempt one error line that all attempts are
\* exhausted, with no wait.
C22_LogLinesOfACall ==
    endpoint \in TextEndpoints =>
        LET reqs == SelectSeq(CallLines, IsRequestLine)
            errs == SelectSeq(CallLines, IsErrorLine)
            waits == SelectSeq(CallLines, IsRetryLine)
            n == Len(CallLines)
        IN  /\ Len(reqs) = Len(outcomes)
            /\ \A k \in 1..Len(reqs) :
                  /\ reqs[k].agent = AgentName(endpoint)
                  /\ reqs[k].model = DEFAULT_MODEL
                  /\ reqs[k].attempt_no = (IF k = 1 THEN None ELSE Some(k))
            /\ Len(SelectSeq(CallLines, IsOkLine)) = (IF GatewayReturned THEN 1 ELSE 0)
            /\ GatewayReturned => CallLines[n] = OkLine(AgentName(endpoint))
            /\ Len(errs) = RetriedFailures
            /\ Len(waits) = RetriedFailures
            /\ \A k \in 1..Len(errs) :
                  /\ errs[k].agent = AgentName(endpoint)
                  /\ errs[k].error = try_request(outcomes[k], k - 1).error
            /\ \A k \in 1..Len(waits) : waits[k].wait = RETRY_BASE_DELAY * (2 ^ (k - 1))
            /\ \A i \in 1..n :
                  /\ IsErrorLine(CallLines[i]) =>
                        (i > 1 /\ i < n /\ IsRequestLine(CallLines[i - 1])
                         /\ IsRetryLine(CallLines[i + 1]))
                  /\ IsRetryLine(CallLines[i]) => (i > 1 /\ IsErrorLine(CallLines[i - 1]))
                  /\ IsExhaustedLine(CallLines[i]) =>
                        (i = n /\ i > 1 /\ IsRequestLine(CallLines[i - 1]))
            /\ Len(SelectSeq(CallLines, IsExhaustedLine)) = (IF GatewayRaised THEN 1 ELSE 0)
            /\ Len(SelectSeq(CallLines, IsErrorTagLine)) =
                  2 * RetriedFailures + (IF GatewayRaised THEN 1 ELSE 0)

C22_Witness ==
    /\ endpoint = "analyst"
    /\ GatewayReturned
    /\ Len(outcomes) = 3
    /\ Len(CallLines) = 8
    /\ CallLines[1].attempt_no = None
    /\ CallLines[3].wait = 1
    /\ CallLines[4].attempt_no = Some(2)

(***************************************************************************)
(* The middle of the Serrated Edge (structure.py 57-89)                    *)
(***************************************************************************)
\* the blocks between the context bridge and the synthesis block
MiddleBlocks == SubSeq(ret[1], 3, Len(ret[1]) - 1)

BlockSpan(block) ==
    TimecodeMinute(block.timecode_end) - TimecodeMinute(block.timecode_start)

\* C23: from minute 3 to the boundary max(total_duration_min - 2, 5) the blocks
\* alternate investigation, rehook, investigation, ..., starting with
\* investigation; an investigation block spans 3 minutes and a rehook block 2,
\* except that the last one is shortened to end exactly at the boundary; every
\* one of them has positive length; a 12-minute arc has at least one of each.
C23_MiddleAlternates ==
    SerratedDone =>
        LET middle == MiddleBlocks
            m == Len(middle)
            boundary == Max(arg[1] - 2, 5)
        IN  /\ m >= 1
            /\ middle[1].timecode_start = "03:00"
            /\ middle[m].timecode_end = Timecode(boundary)
            /\ ret[1][Len(ret[1])].timecode_start = Timecode(boundary)
            /\ \A i \in 1..m :
                  /\ middle[i].phase = (IF i % 2 = 1 THEN "INVESTIGATION" ELSE "REHOOK")
                  /\ BlockSpan(middle[i]) > 0
                  /\ i < m => BlockSpan(middle[i]) = (IF i % 2 = 1 THEN 3 ELSE 2)
                  /\ i < m => middle[i + 1].timecode_start = middle[i].timecode_end
                  /\ BlockSpan(middle[i]) <= (IF i % 2 = 1 THEN 3 ELSE 2)
            /\ arg[1] = 12 =>
                  /\ \E i \in 1..m : middle[i].phase = "INVESTIGATION"
                  /\ \E i \in 1..m : middle[i].phase = "REHOOK"

C23_Witness ==
    /\ fpc = "call_done"
    /\ arg = Some(14)
    /\ Len(MiddleBlocks) = 4
    /\ MiddleBlocks[2].phase = "REHOOK"
    /\ MiddleBlocks[4].timecode_start = "11:00"
    /\ MiddleBlocks[4].timecode_end = "12:00"

(***************************************************************************)
(* run_architect called on a state and a dossier (agents.py 317-404)       *)
(***************************************************************************)
\* the largest number of evidence loops in a dossier
MaxLoops == 5

\* state.content_type: None, or the text that run_scout's caller stored
ArchitectContentTypes ==
    {None, Some("investigation"), Some("explainer"), Some("geopolitics"),
     Some("business"), Some("podcast")}

DossierLoop(i) ==
    EvidenceLoop("Context " \o IntToStr(i), "Look at this.", "exhibit " \o IntToStr(i),
                 "It means that...", "BUT")

\* dossiers as run_analyst builds them, with 0..MaxLoops loops and with or
\* without visual anchors
ArchitectDossiers ==
    {[ResearchDossier(RadarOutput(ScoutSuggestions[t]))
         EXCEPT !.evidence_loops = [i \in 1..n |-> DossierLoop(i)],
                !.visual_anchors = anchors]
        : t \in 1..Len(ScoutSuggestions), n \in 0..MaxLoops,
          anchors \in {<<>>, VisualAnchors}}

InitArchitect ==
    /\ AllOff
    /\ fpc = "idle"
    /\ arg = None
    /\ ret = None

\* blueprint = run_architect(state, dossier) on a state with the content type set
CallArchitect(content_type, dossier) ==
    /\ fpc = "idle"
    /\ arg' = Some([content_type |-> content_type, dossier |-> dossier])
    /\ LET s == [state EXCEPT !.content_type = content_type]
       IN  /\ state' = run_architect(s, dossier)
           /\ ret' = Some(StructureBlueprint(s, dossier))
    /\ fpc' = "architect_done"
    /\ UNCHANGED <<pc, steppable, locals, prompt_after, visited, called, prompts,
                   last_input, added, gvars>>

\* the caller drops the blueprint and starts over
ForgetBlueprint ==
    /\ fpc = "architect_done"
    /\ fpc' = "idle"
    /\ arg' = None
    /\ ret' = None
    /\ state' = PipelineState(FALSE)
    /\ UNCHANGED <<pc, steppable, locals, prompt_after, visited, called, prompts,
                   last_input, added, gvars>>

NextArchitect ==
    \/ \E content_type \in ArchitectContentTypes, dossier \in ArchitectDossiers :
          CallArchitect(content_type, dossier)
    \/ ForgetBlueprint

SpecArchitect == InitArchitect /\ [][NextArchitect]_vars

ArchitectDone == fpc = "architect_done"

LoopPhases == {"INVESTIGATION", "REHOOK"}

\* the number of investigation and rehook blocks among the first i blocks
LoopBlocksUpTo(blocks, i) ==
    Cardinality({j \in 1..i : blocks[j].phase \in LoopPhases})

\* C24: the dossier's loops go only to investigation and rehook blocks, in block
\* order: the i-th such block gets the i-th loop; no block gets more than one
\* loop and blocks of other phases get none; min(loops, such blocks) loops are
\* attached and surplus loops or blocks stay unattached without an error.
C24_LoopsAttachedInOrder ==
    ArchitectDone =>
        LET blocks == ret[1].blocks
            loops == arg[1].dossier.evidence_loops
            n == Len(blocks)
        IN  /\ state.structure_blueprint = ret
            /\ n = Len(generate_serrated_edge(12))
            /\ \A i \in 1..n :
                  /\ blocks[i] = [generate_serrated_edge(12)[i]
                                     EXCEPT !.evidence_loops = blocks[i].evidence_loops]
                  /\ Len(blocks[i].evidence_loops) <= 1
                  /\ blocks[i].phase \notin LoopPhases => blocks[i].evidence_loops = <<>>
                  /\ blocks[i].phase \in LoopPhases =>
                        blocks[i].evidence_loops =
                            (IF LoopBlocksUpTo(blocks, i) <= Len(loops)
                             THEN <<loops[LoopBlocksUpTo(blocks, i)]>>
                             ELSE <<>>)
            /\ Sum([i \in 1..n |-> Len(blocks[i].evidence_loops)])
                   = Min(Len(loops), LoopBlocksUpTo(blocks, n))

C24_Witness ==
    /\ ArchitectDone
    /\ Len(arg[1].dossier.evidence_loops) = 5
    /\ ret[1].blocks[2].evidence_loops = <<>>
    /\ ret[1].blocks[3].evidence_loops = <<DossierLoop(1)>>
    /\ ret[1].blocks[4].evidence_loops = <<DossierLoop(2)>>
    /\ ret[1].blocks[5].evidence_loops = <<DossierLoop(3)>>
    /\ ret[1].blocks[6].evidence_loops = <<>>

\* the keyword that the hook-approach text of the content type names
Names(content_type, keyword) ==
    /\ content_type[1] \in DOMAIN CONTENT_TYPE_META
    /\ Contains(CONTENT_TYPE_META[content_type[1]].hook_approach, keyword)

\* C25: the hook archetype is investigator when the state has no content type;
\* otherwise contrarian if the hook-approach text names the contrarian framing,
\* else teacher if it names the teacher, else magician if it names the magician,
\* else investigator; business gives contrarian, explainer teacher, geopolitics
\* magician and investigation investigator.
C25_ArchetypeByContentType ==
    ArchitectDone =>
        LET content_type == arg[1].content_type
            archetype == HookArchetype[ret[1].hook.archetype]
        IN  /\ content_type = None => archetype = "investigator"
            /\ content_type # None =>
                  /\ Names(content_type, "Contrarian") => archetype = "contrarian"
                  /\ (~Names(content_type, "Contrarian") /\ Names(content_type, "Teacher"))
                        => archetype = "teacher"
                  /\ (/\ ~Names(content_type, "Contrarian")
                      /\ ~Names(content_type, "Teacher")
                      /\ Names(content_type, "Magician")) => archetype = "magician"
                  /\ (/\ ~Names(content_type, "Contrarian")
                      /\ ~Names(content_type, "Teacher")
                      /\ ~Names(content_type, "Magician")) => archetype = "investigator"
            /\ content_type = Some("business") => archetype = "contrarian"
            /\ content_type = Some("explainer") => archetype = "teacher"
            /\ content_type = Some("geopolitics") => archetype = "magician"
            /\ content_type = Some("investigation") => archetype = "investigator"

C25_Witness ==
    /\ ArchitectDone
    /\ arg[1].content_type = Some("geopolitics")
    /\ ret[1].hook.archetype = "MAGICIAN"
    /\ state.structure_blueprint[1].hook.archetype = "MAGICIAN"

(***************************************************************************)
(* run_writer called on a blueprint (agents.py 461-582)                    *)
(***************************************************************************)
\* blocks with 0, 1 or 2 loops, with and without a rehook text
WriterBlocks ==
    {ScriptBlock(phase, "03:00", "06:00", loops, rehook_text, 60)
        : phase \in {"INVESTIGATION", "CONTEXT_BRIDGE"},
          loops \in {<<>>, <<DossierLoop(1)>>, <<DossierLoop(1), DossierLoop(2)>>},
          rehook_text \in {"", "[new conflict]"}}

\* the blueprints given to run_writer: those of run_architect with other blocks
WriterBlueprints ==
    {[StructureBlueprint([PipelineState(FALSE) EXCEPT !.content_type = Some("business")],
                         dossier)
         EXCEPT !.blocks = blocks]
        : dossier \in {d \in ArchitectDossiers :
                          d.topic = ScoutSuggestions[1].title /\ d.evidence_loops = <<>>},
          blocks \in SeqsUpTo(WriterBlocks, MaxBlocks)}

InitWriter ==
    /\ AllOff
    /\ fpc = "idle"
    /\ arg = None
    /\ ret = None

\* output = run_writer(state, blueprint, dossier); the dossier is not read
CallWriter(blueprint) ==
    /\ fpc = "idle"
    /\ arg' = Some(blueprint)
    /\ LET dossier == ResearchDossier(RadarOutput(ScoutSuggestions[1]))
       IN  /\ state' = run_writer(state, blueprint, dossier)
           /\ ret' = Some(WriterOutput(blueprint, dossier))
    /\ fpc' = "writer_done"
    /\ UNCHANGED <<pc, steppable, locals, prompt_after, visited, called, prompts,
                   last_input, added, gvars>>

\* the whole pipeline's blueprint: run_architect on the dossier of run_analyst
CallWriterAfterArchitect(content_type) ==
    /\ fpc = "idle"
    /\ LET dossier == ResearchDossier(RadarOutput(ScoutSuggestions[1]))
           s == [state EXCEPT !.content_type = content_type]
           blueprint == StructureBlueprint(s, dossier)
       IN  /\ arg' = Some(blueprint)
           /\ state' = run_writer(run_architect(s, dossier), blueprint, dossier)
           /\ ret' = Some(WriterOutput(blueprint, dossier))
    /\ fpc' = "writer_done"
    /\ UNCHANGED <<pc, steppable, locals, prompt_after, visited, called, prompts,
                   last_input, added, gvars>>

NextWriter ==
    \/ \E blueprint \in WriterBlueprints : CallWriter(blueprint)
    \/ \E content_type \in ArchitectContentTypes : CallWriterAfterArchitect(content_type)

SpecWriter == InitWriter /\ [][NextWriter]_vars

WriterDone == fpc = "writer_done"

\* the durations of the lines that the claim lists for one block
BlockDurations(block) ==
    LET perloop == [i \in 1..(4 * Len(block.evidence_loops)) |->
                       IF i % 2 = 1 THEN 4 ELSE 3]
    IN  perloop \o (IF block.rehook_text # "" THEN <<3>> ELSE <<>>)

RECURSIVE BlocksDurations(_)
BlocksDurations(blocks) ==
    IF blocks = <<>> THEN <<>>
    ELSE BlockDurations(Head(blocks)) \o BlocksDurations(Tail(blocks))

\* hook 2, 2, 3; the blocks; closing 4, 5
LineDurations(blueprint) == <<2, 2, 3>> \o BlocksDurations(blueprint.blocks) \o <<4, 5>>

\* the audio texts in the order the claim lists the lines
BlockTexts(block) ==
    LET loops == block.evidence_loops
        perloop == [i \in 1..(4 * Len(loops)) |->
                       LET loop == loops[((i - 1) \div 4) + 1]
                       IN  CASE i % 4 = 1 -> loop.context
                             [] i % 4 = 2 -> loop.deictic_driver
                             [] i % 4 = 3 -> loop.reveal
                             [] OTHER -> loop.transition]
    IN  perloop \o (IF block.rehook_text # "" THEN <<block.rehook_text>> ELSE <<>>)

RECURSIVE BlocksTexts(_)
BlocksTexts(blocks) ==
    IF blocks = <<>> THEN <<>>
    ELSE BlockTexts(Head(blocks)) \o BlocksTexts(Tail(blocks))

NumLoops(blueprint) ==
    Sum([i \in 1..Len(blueprint.blocks) |-> Len(blueprint.blocks[i].evidence_loops)])
NumRehooks(blueprint) ==
    Cardinality({i \in 1..Len(blueprint.blocks) : blueprint.blocks[i].rehook_text # ""})

\* the seconds that a "MM:SS" timecode denotes (-1 for any other text)
TimecodeSeconds(text) ==
    IF \E sec \in 0..200 : timecode_of(sec) = text
    THEN CHOOSE sec \in 0..200 : timecode_of(sec) = text
    ELSE -1

\* C26: run_writer emits 3 hook lines (2, 2, 3 s), per block 4 lines for each of
\* its loops (context 4 s, deictic driver 3 s, reveal 4 s, transition 3 s) and
\* then one rehook line (3 s) if the block has rehook_text, then 2 closing lines
\* (4 s, 5 s): 5 + 4L + R lines; each line's timecode is the sum of the
\* durations of the lines before it (the first 00:00, never decreasing) and
\* total_duration_sec is the sum of all durations, 16 + 14L + 3R.
C26_WriterLinesAndTimecodes ==
    WriterDone =>
        LET blueprint == arg[1]
            script == ret[1].script
            lines == script.av_lines
            durations == LineDurations(blueprint)
            L == NumLoops(blueprint)
            R == NumRehooks(blueprint)
            n == Len(lines)
        IN  /\ state.writer_output = ret
            /\ n = 5 + 4 * L + R
            /\ n = Len(durations)
            /\ ret[1].block_count = n
            /\ \A i \in 1..3 : lines[i].audio_text = steps(blueprint.hook)[i].text
            /\ [i \in 1..(n - 5) |-> lines[i + 3].audio_text]
                   = BlocksTexts(blueprint.blocks)
            /\ lines[n - 1].visual_type = "TALKING_HEAD"
            /\ lines[n].visual_type = "TEXT_OVERLAY"
            /\ lines[1].timecode = "00:00"
            /\ \A i \in 1..n :
                  lines[i].timecode = timecode_of(Sum(SubSeq(durations, 1, i - 1)))
            /\ \A i \in 1..(n - 1) :
                  /\ TimecodeSeconds(lines[i].timecode) >= 0
                  /\ TimecodeSeconds(lines[i].timecode)
                         <= TimecodeSeconds(lines[i + 1].timecode)
            /\ script.total_duration_sec = Sum(durations)
            /\ script.total_duration_sec = 16 + 14 * L + 3 * R

C26_Witness ==
    /\ WriterDone
    /\ NumLoops(arg[1]) = 4
    /\ NumRehooks(arg[1]) = 1
    /\ Len(ret[1].script.av_lines) = 22
    /\ ret[1].script.av_lines[20].timecode = "01:03"
    /\ ret[1].script.total_duration_sec = 75

(***************************************************************************)
(* The Confusion check of validate_hook (hook_engine.py 66-82)             *)
(***************************************************************************)
\* no run of more than 15 consecutive letters
NoLetterRunOver15(text) ==
    \A i \in 1..(Len(text) - 15) : \E j \in i..(i + 15) : ~IsLetter(CharAt(text, j))

HookValidated == fpc = "validated"

\* C27 as stated: Confusion passes iff no word in the three texts is longer
\* than 15 characters and each of the three steps has a non-empty visual field.
C27_ConfusionIffNonEmptyVisuals ==
    HookValidated =>
        (ret[2].passed <=>
            /\ \A i \in 1..3 : NoLetterRunOver15(steps(arg)[i].text)
            /\ \A i \in 1..3 : steps(arg)[i].visual # "")

\* C27, amended: Confusion passes iff no word (a maximal run of letters) in the
\* three texts is longer than 15 characters and each of the three steps has a
\* visual field that is not empty once surrounding whitespace is stripped.
C27_ConfusionIffNonBlankVisuals ==
    HookValidated =>
        /\ ret[2].error = "CONFUSION"
        /\ ret[2].passed <=>
              /\ \A i \in 1..3 : NoLetterRunOver15(steps(arg)[i].text)
              /\ \A i \in 1..3 : NotBlank(steps(arg)[i].visual)

C27_Witness ==
    /\ HookValidated
    /\ arg.step1_anchor.visual = "SEC filing scan"
    /\ arg.step2_interjection.text = "A state-of-the-art-technology"
    /\ arg.step2_interjection.visual = "zoom"
    /\ arg.step3_snapback.visual = " "
    /\ ~ret[2].passed

(***************************************************************************)
(* analyze_editing_rhythm (analyzer.py 198-249).  The density is kept as   *)
(* hundredths.                                                             *)
(***************************************************************************)
\* lines 219-228: the loop over the lines, with talking_head_sequences and
\* consecutive
RECURSIVE count_talking_head(_, _, _)
count_talking_head(av_lines, talking_head_sequences, consecutive) ==
    IF av_lines = <<>> THEN talking_head_sequences
    ELSE IF Head(av_lines).visual_type = "TALKING_HEAD"
    THEN count_talking_head(Tail(av_lines),
                            IF consecutive + 1 >= 3 THEN talking_head_sequences + 1
                            ELSE talking_head_sequences,
                            consecutive + 1)
    ELSE count_talking_head(Tail(av_lines), talking_head_sequences, 0)

\* lines 207-249
analyze_editing_rhythm(av_lines) ==
    IF av_lines = <<>>
    THEN [total_lines |-> 0, visual_types_used |-> {}, visual_types_missing |-> None,
          talking_head_sequences |-> 0, pattern_interrupt_density |-> 0,
          verdict |-> "empty"]
    ELSE LET visual_types_used == {av_lines[i].visual_type : i \in 1..Len(av_lines)}
             talking_head_sequences == count_talking_head(av_lines, 0, 0)
             non_th == Cardinality({i \in 1..Len(av_lines) :
                                       av_lines[i].visual_type # "TALKING_HEAD"})
             n == Len(av_lines)
         IN  [total_lines |-> n,
              visual_types_used |-> visual_types_used,
              visual_types_missing |-> Some(DOMAIN VisualType \ visual_types_used),
              talking_head_sequences |-> talking_head_sequences,
              pattern_interrupt_density |-> RoundHalfEven(non_th, n, 100),
              verdict |-> IF 10 * non_th >= 6 * n /\ talking_head_sequences = 0
                          THEN "dynamic"
                          ELSE IF 10 * non_th >= 4 * n THEN "acceptable"
                          ELSE "too static"]

\* the longest list of lines analysed
MaxRhythmLines == 5

RhythmTypes == {"TALKING_HEAD", "BROLL", "DOCUMENT"}

RhythmInputs ==
    {[i \in 1..Len(types) |-> AVLine(timecode_of(4 * (i - 1)), "Look.", "shot",
                                     types[i], "", "")]
        : types \in SeqsUpTo(RhythmTypes, MaxRhythmLines)}

InitRhythm ==
    /\ AllOff
    /\ fpc = "lines"
    /\ arg \in RhythmInputs
    /\ ret = None

AnalyzeEditingRhythm ==
    /\ fpc = "lines"
    /\ ret' = analyze_editing_rhythm(arg)
    /\ fpc' = "rhythm_done"
    /\ UNCHANGED <<arg, pvars, added, gvars>>

NextRhythm == AnalyzeEditingRhythm

SpecRhythm == InitRhythm /\ [][NextRhythm]_vars

IsTalkingHead(i) == arg[i].visual_type = "TALKING_HEAD"

\* the runs of consecutive talking-head lines of length 3 or more, each given
\* by its first and last line
LongTalkingHeadRuns ==
    {<<a, b>> \in (1..Len(arg)) \X (1..Len(arg)) :
        /\ b - a + 1 >= 3
        /\ \A i \in a..b : IsTalkingHead(i)
        /\ (a = 1 \/ ~IsTalkingHead(a - 1))
        /\ (b = Len(arg) \/ ~IsTalkingHead(b + 1))}

\* C28: talking_head_sequences is the number of runs of consecutive
\* talking-head lines that reach a length of 3 or more, each run counted once
\* whatever its length, and it is zero exactly when no three consecutive lines
\* are talking head.
C28_CountsLongRunsOnce ==
    fpc = "rhythm_done" =>
        /\ ret.talking_head_sequences = Cardinality(LongTalkingHeadRuns)
        /\ ret.talking_head_sequences = 0 <=>
              ~\E i \in 1..(Len(arg) - 2) :
                  IsTalkingHead(i) /\ IsTalkingHead(i + 1) /\ IsTalkingHead(i + 2)

(***************************************************************************)
(* The state that run_pipeline returns (orchestrator.py 93-143)            *)
(***************************************************************************)
\* C29: whenever run_pipeline returns a PipelineState, after all five stages or
\* after a cancellation at an approval prompt, the returned state has
\* is_processing = FALSE.
C29_ReturnedStateNotProcessing ==
    pc \in {"return_cancelled", "return_completed"} => ~state.is_processing

(***************************************************************************)
(* What analyze_but_therefore counts (structure.py 194-235)                *)
(***************************************************************************)
\* the matches of the patterns in the text: <<pattern, first, last>>
Spans(patterns, text) ==
    {<<pi[1], pi[2], match_end(text, pi[2], patterns[pi[1]])>> :
        pi \in {qj \in (1..Len(patterns)) \X (1..Len(text)) :
                   match_end(text, qj[2], patterns[qj[1]]) > 0}}

Overlap(s, t) == s[2] <= t[3] /\ t[2] <= s[3]

\* the occurrences of a phrase in the text: the matched stretches that lie in
\* no longer matched stretch
Occurrences(patterns, text) ==
    LET spans == Spans(patterns, text)
    IN  {<<s[2], s[3]>> : s \in {u \in spans :
            ~\E v \in spans : /\ v[2] <= u[2] /\ u[3] <= v[3]
                              /\ <<v[2], v[3]>> # <<u[2], u[3]>>}}

CountedOnce(patterns, text, count) ==
    /\ \A s, t \in Spans(patterns, text) : s # t => ~Overlap(s, t)
    /\ count = Cardinality(Occurrences(patterns, text))

\* C30: each occurrence of a sequencing phrase adds exactly one to
\* and_then_count and each occurrence of a causal connector exactly one to
\* but_therefore_count: no occurrence is counted by more than one pattern.
C30_EachOccurrenceCountedOnce ==
    fpc = "analyzed" =>
        /\ CountedOnce(_AND_THEN_PATTERNS_RU \o _AND_THEN_PATTERNS_EN,
                       lower(arg.text), ret.and_then_count)
        /\ CountedOnce(_BUT_THEREFORE_PATTERNS_RU \o _BUT_THEREFORE_PATTERNS_EN,
                       lower(arg.text), ret.but_therefore_count)

====
